---- MODULE Spec2Model ----
(***************************************************************************)
(* Model of the RIFT governance validation engine                          *)
(* (poc/rift_governance_validator.py) and of the RIFT-Bridge bootstrap     *)
(* orchestrator (rift-old/rift-bridge/tools/hoc/bootstrap.py).             *)
(*                                                                         *)
(* The environment of a run is the project tree (the governance           *)
(* descriptors under project_root, the audit artifact, the main .riftrc),  *)
(* the behaviour of the external nlink tool and the wall clock.  The tool  *)
(* and the clock are fixed at Init; a path of the tree is read by one step *)
(* of a run only, and its content is fixed in the step before.  The        *)
(* validator's methods are operators over the environment and the actions  *)
(* are the steps of generate_governance_report and main.                   *)
(***************************************************************************)
EXTENDS Integers, Sequences, FiniteSets, TLC

VARIABLES
    fs,               \* project tree: path -> file content
    nlink,            \* behaviour of the external "nlink" tool when it is run
    now,              \* wall clock (seconds), constant during a run
    pc,               \* position of the process
    stage_id,         \* loop variable of validate_complete_pipeline
    pipeline_results, \* stage id -> results of validate_stage_governance
    custom_results,   \* results of validate_custom_stages
    validation_log,   \* self.validation_log
    report,           \* value returned by generate_governance_report
    exit_code,        \* argument of sys.exit in main
    evaluated,        \* history: stage ids whose descriptors were read, in order
    nlink_runs,       \* history: number of times the nlink tool was run
    call,             \* the last direct call of validate_governance_file
    previous,         \* history: what the run before this one produced
    scripts,          \* TreeResolver.scripts: name -> ScriptMetadata
    permission_config,\* PermissionElevator.config
    dry_run,          \* RiftBridgeBootstrapper.dry_run
    target_script,    \* argument of bootstrap_target
    execution_order,  \* what resolve_execution_order produced
    current,          \* position of bootstrap_target's loop in the order
    lifecycle,        \* name -> lifecycle state of the node
    trace,            \* history: the phases run, in order, with their result
    modes,            \* name -> permission bits of the script file on disk
    elevation_log,    \* PermissionElevator.elevation_log
    audit_log,        \* GovernanceValidator.audit_log
    hook_results,     \* HookExecutor.hook_results
    hook_calls,       \* history: the hooks met by execute_hooks, in order
    success,          \* value returned by bootstrap_target
    text,             \* argument of tokenize
    parts,            \* history: the constructs the text was written from
    tokens            \* value returned by tokenize

\* the variables of the bootstrap orchestrator
bvars == <<scripts, permission_config, dry_run, target_script, execution_order,
           current, lifecycle, trace, modes, elevation_log, audit_log,
           hook_results, hook_calls, success>>

\* the variables of the tokenizer
tvars == <<text, parts, tokens>>

\* the variables of the governance validator, but pc and exit_code
gvars == <<fs, nlink, now, stage_id, pipeline_results, custom_results,
           validation_log, report, evaluated, nlink_runs, call, previous>>

vars == <<fs, nlink, now, pc, stage_id, pipeline_results, custom_results,
          validation_log, report, exit_code, evaluated, nlink_runs, call,
          previous,
          scripts, permission_config, dry_run, target_script, execution_order,
          current, lifecycle, trace, modes, elevation_log, audit_log,
          hook_results, hook_calls, success, text, parts, tokens>>

----------------------------------------------------------------------------
(* ValidationResult and StageType                                          *)

VALID == "valid"
EXPIRED == "expired"
INVALID_SCHEMA == "invalid_schema"
SEMVERX_VIOLATION == "semverx_violation"
MISSING_GOVERNANCE == "missing_governance"

ValidationResult ==
    {VALID, EXPIRED, INVALID_SCHEMA, SEMVERX_VIOLATION, MISSING_GOVERNANCE}

StageType == {"legacy", "experimental", "stable"}

----------------------------------------------------------------------------
(* Time.  Timestamps and the clock are seconds on one UTC axis.            *)

SecondsPerDay == 24 * 60 * 60

ExpirationDays == 90

expiration_window == ExpirationDays * SecondsPerDay

----------------------------------------------------------------------------
(* File contents.                                                          *)
(*   kind  "absent"     nothing at the path (os.path.exists is False,      *)
(*                      open raises FileNotFoundError)                     *)
(*         "directory"  the path exists but cannot be opened as a file     *)
(*                      (open raises IsADirectoryError/PermissionError)    *)
(*         "malformed"  not JSON (json.load raises JSONDecodeError)        *)
(*         "scalar"     JSON null, number or boolean                       *)
(*         "array"      JSON array                                         *)
(*         "object"     JSON object with the keys described below          *)
(* An optional key holds "absent" when the object does not carry it.       *)

RequiredFields == {"package_name", "version", "stage", "timestamp"}

Tri == {"absent", "true", "false"}

NoOptimizer == [present |-> FALSE, optimizer_model |-> "absent",
                minimization_verified |-> "absent", audit_enabled |-> "absent"]

Object(fields, ts_form, ts, stype, lock, nl, opt) ==
    [kind |-> "object", fields |-> fields, ts_form |-> ts_form, timestamp |-> ts,
     stage_type |-> stype, semverx_lock |-> lock, nlink_enabled |-> nl,
     stage_5_optimizer |-> opt, custom_stages |-> <<>>]

NonObject(kind) ==
    [kind |-> kind, fields |-> {}, ts_form |-> "invalid", timestamp |-> 0,
     stage_type |-> "absent", semverx_lock |-> "absent", nlink_enabled |-> "absent",
     stage_5_optimizer |-> NoOptimizer, custom_stages |-> <<>>]

Absent == NonObject("absent")

\* os.path.exists(path)
Exists(f) == f.kind # "absent"

\* dict.get(key, default) for a boolean key, and the truth value Python gives it
Get(v, default) == IF v = "absent" THEN default ELSE v = "true"

----------------------------------------------------------------------------
(* GovernanceConfig.  The dataclass has exactly the nine attributes below; *)
(* None is the value returned when no descriptor was parsed.               *)

None == [none |-> TRUE]

\* hasattr(obj, name)
HasAttr(obj, name) == name \in DOMAIN obj

\* _validate_required_fields: "field in config_data" for the four fields.
\* On a JSON array the membership tests are all False; on a JSON null,
\* number or boolean the "in" operator raises TypeError.
ValidateRequiredFields(config_data) ==
    CASE config_data.kind = "scalar" -> [raised |-> "TypeError", value |-> FALSE]
      [] config_data.kind = "array"  -> [raised |-> "none", value |-> FALSE]
      [] OTHER -> [raised |-> "none",
                   value |-> \A field \in RequiredFields : field \in config_data.fields]

\* StageType(value): the enum constructor raises ValueError on a value that
\* is none of its members.
StageTypeRaises(config_data) ==
    LET v == IF config_data.stage_type = "absent" THEN "experimental"
             ELSE config_data.stage_type
    IN  v \notin StageType

\* _parse_governance_config: the attributes are copied from the four
\* required keys and from .get() of the optional ones with their defaults.
ParseGovernanceConfig(config_data) ==
    [package_name  |-> "pkg",
     version       |-> "ver",
     timestamp     |-> config_data.timestamp,
     ts_form       |-> config_data.ts_form,
     stage         |-> "stage",
     stage_type    |-> IF config_data.stage_type = "absent" THEN "experimental"
                       ELSE config_data.stage_type,
     semverx_lock  |-> Get(config_data.semverx_lock, FALSE),
     entry_point   |-> "",
     nlink_enabled |-> Get(config_data.nlink_enabled, FALSE),
     custom_stages |-> config_data.custom_stages]

\* The window compared with <= : an age of exactly 90 days passes.
ValidateTimestampFreshnessInclusive(ts_form, timestamp) ==
    CASE ts_form = "invalid" -> [raised |-> "none", value |-> FALSE]
      [] ts_form = "naive"   -> [raised |-> "TypeError", value |-> FALSE]
      [] OTHER -> [raised |-> "none",
                   value |-> (now - timestamp) <= 90 * 24 * 60 * 60]

\* A timestamp that cannot be parsed taken for a fresh one.
ValidateTimestampFreshnessUnparsedFresh(ts_form, timestamp) ==
    CASE ts_form = "invalid" -> [raised |-> "none", value |-> TRUE]
      [] ts_form = "naive"   -> [raised |-> "TypeError", value |-> FALSE]
      [] OTHER -> [raised |-> "none",
                   value |-> (now - timestamp) < expiration_window]

\* _validate_timestamp_freshness.  ts_form says what fromisoformat makes of
\* the string (after 'Z' is rewritten to '+00:00'):
\*   "invalid"  ValueError, caught: the check answers False
\*   "naive"    a datetime without offset: subtracting it from the aware
\*              current time raises TypeError, which is not caught
\*   "aware"    a datetime with offset: (now - timestamp) < 90 days
ValidateTimestampFreshness(ts_form, timestamp) ==
    CASE ts_form = "invalid" -> [raised |-> "none", value |-> FALSE]
      [] ts_form = "naive"   -> [raised |-> "TypeError", value |-> FALSE]
      [] OTHER -> [raised |-> "none",
                   value |-> (now - timestamp) < expiration_window]

\* _validate_semverx_compliance: the answer, whether subprocess.run was
\* called on the tool (invoked) and what was logged.
ToolOutcomes == {"exit0", "nonzero", "timeout", "notfound"}

\* The tool run whatever nlink_enabled says.
ValidateSemverxComplianceAlways(config) ==
    IF nlink \in {"timeout", "notfound"}
    THEN [value |-> FALSE, invoked |-> 1, log |-> <<"nlink_validation_failed">>]
    ELSE [value |-> nlink = "exit0", invoked |-> 1, log |-> <<>>]

\* A tool that cannot be run or times out taken as a skipped check.
ValidateSemverxComplianceSkipping(config) ==
    IF ~config.nlink_enabled
    THEN [value |-> TRUE, invoked |-> 0, log |-> <<>>]
    ELSE IF nlink \in {"timeout", "notfound"}
         THEN [value |-> TRUE, invoked |-> 1, log |-> <<"nlink_validation_failed">>]
         ELSE [value |-> nlink = "exit0", invoked |-> 1, log |-> <<>>]

ValidateSemverxCompliance(config) ==
    IF ~config.nlink_enabled
    THEN [value |-> TRUE, invoked |-> 0, log |-> <<>>]
    ELSE IF nlink \in {"timeout", "notfound"}
         THEN [value |-> FALSE, invoked |-> 1, log |-> <<"nlink_validation_failed">>]
         ELSE [value |-> nlink = "exit0", invoked |-> 1, log |-> <<>>]

\* What a call of validate_governance_file produces: either it returns
\* (result, config) or an exception leaves it (raised # "none").
Return(result, config, invoked, log) ==
    [raised |-> "none", result |-> result, config |-> config, invoked |-> invoked, log |-> log]

Raise(exc, invoked, log) ==
    [raised |-> exc, result |-> "none", config |-> None, invoked |-> invoked, log |-> log]

\* The lock enforcement placed before the freshness check.
ValidateGovernanceFileLockFirst(f) ==
    CASE f.kind = "absent"    -> Return(INVALID_SCHEMA, None, 0, <<"file_validation_failed">>)
      [] f.kind = "directory" -> Raise("OSError", 0, <<>>)
      [] f.kind = "malformed" -> Return(INVALID_SCHEMA, None, 0, <<"file_validation_failed">>)
      [] OTHER ->
         LET req == ValidateRequiredFields(f) IN
         IF req.raised # "none" THEN Raise(req.raised, 0, <<>>)
         ELSE IF ~req.value THEN Return(INVALID_SCHEMA, None, 0, <<>>)
         ELSE IF StageTypeRaises(f) THEN Raise("ValueError", 0, <<>>)
         ELSE
           LET config == ParseGovernanceConfig(f)
               sv == IF config.semverx_lock THEN ValidateSemverxCompliance(config)
                     ELSE [value |-> TRUE, invoked |-> 0, log |-> <<>>]
               fresh == ValidateTimestampFreshness(config.ts_form, config.timestamp)
           IN
           IF ~sv.value THEN Return(SEMVERX_VIOLATION, config, sv.invoked, sv.log)
           ELSE IF fresh.raised # "none" THEN Raise(fresh.raised, sv.invoked, sv.log)
           ELSE IF ~fresh.value THEN Return(EXPIRED, config, sv.invoked, sv.log)
           ELSE Return(VALID, config, sv.invoked, sv.log)

\* validate_governance_file(governance_path), on the content f of the path.
\* The except clause catches JSONDecodeError, FileNotFoundError and KeyError
\* only; it logs and answers INVALID_SCHEMA.
ValidateGovernanceFile(f) ==
    CASE f.kind = "absent"    -> Return(INVALID_SCHEMA, None, 0, <<"file_validation_failed">>)
      [] f.kind = "directory" -> Raise("OSError", 0, <<>>)
      [] f.kind = "malformed" -> Return(INVALID_SCHEMA, None, 0, <<"file_validation_failed">>)
      [] OTHER ->
         LET req == ValidateRequiredFields(f) IN
         IF req.raised # "none" THEN Raise(req.raised, 0, <<>>)
         ELSE IF ~req.value THEN Return(INVALID_SCHEMA, None, 0, <<>>)
         ELSE IF StageTypeRaises(f) THEN Raise("ValueError", 0, <<>>)
         ELSE
           LET config == ParseGovernanceConfig(f)
               fresh  == ValidateTimestampFreshness(config.ts_form, config.timestamp)
           IN
           IF fresh.raised # "none" THEN Raise(fresh.raised, 0, <<>>)
           ELSE IF ~fresh.value THEN Return(EXPIRED, config, 0, <<>>)
           ELSE IF ~config.semverx_lock THEN Return(VALID, config, 0, <<>>)
           ELSE
             LET sv == ValidateSemverxCompliance(config) IN
             IF ~sv.value THEN Return(SEMVERX_VIOLATION, config, sv.invoked, sv.log)
             ELSE Return(VALID, config, sv.invoked, sv.log)

----------------------------------------------------------------------------
(* Paths under project_root.                                               *)

PrimaryPath(stage) == <<".riftrc", stage, "">>
GovPath(stage, substage) == <<"gov", stage, substage>>
FallbackPath(stage, substage) == <<"irift/gov", stage, substage>>
CustomGovPath(name) == <<"gov.custom", 0, name>>
MainConfigPath == <<".riftrc", -1, "">>
AuditPath == <<"logs", 0, "opt_trace.sig">>

NumStages == 7

Stages == 0 .. (NumStages - 1)

substage_mapping ==
    [stage \in Stages |->
        CASE stage = 0 -> <<"tokenizer">>
          [] stage = 1 -> <<"parser">>
          [] stage = 2 -> <<"semantic">>
          [] stage = 3 -> <<"validator">>
          [] stage = 4 -> <<"bytecode">>
          [] stage = 5 -> <<"optimizer", "verifier">>
          [] stage = 6 -> <<"emitter">>]

(* Python dicts: functions with a finite domain.                           *)
EmptyDict == [k \in {} |-> VALID]

Put(d, k, v) == [x \in (DOMAIN d) \cup {k} |-> IF x = k THEN v ELSE d[x]]

Values(d) == {d[k] : k \in DOMAIN d}

\* the members of a list
Range(seq) == {seq[i] : i \in DOMAIN seq}

\* result keys of validate_stage_governance
PrimaryKey == <<"stage", "primary">>
GovernanceKey(substage) == <<substage, "governance">>
FallbackKey(substage) == <<substage, "fallback">>
SecurityKey == <<"optimizer", "security">>

----------------------------------------------------------------------------
\* _validate_stage5_security_governance(config)
Stage5RequiredFields == {"optimizer_model", "minimization_verified", "audit_enabled"}

ValidateStage5SecurityGovernance(config) ==
    IF ~HasAttr(config, "stage_5_optimizer") THEN MISSING_GOVERNANCE
    ELSE
      LET optimizer_config == config.stage_5_optimizer IN
      IF \E field \in Stage5RequiredFields : optimizer_config[field] = "absent"
      THEN INVALID_SCHEMA
      ELSE IF ~Get(optimizer_config.minimization_verified, FALSE)
      THEN SEMVERX_VIOLATION
      ELSE IF Get(optimizer_config.audit_enabled, TRUE) /\ ~Exists(fs[AuditPath])
      THEN MISSING_GOVERNANCE
      ELSE VALID

\* The fallback location never consulted: the primary descriptor decides.
HandleMissingGovernanceIgnoringFallback(stage, substage) ==
    LET primary == fs[PrimaryPath(stage)] IN
    IF Exists(primary)
    THEN CASE primary.kind = "directory" -> Raise("OSError", 0, <<>>)
           [] primary.kind = "malformed" -> Raise("JSONDecodeError", 0, <<>>)
           [] primary.kind \in {"scalar", "array"} -> Raise("AttributeError", 0, <<>>)
           [] OTHER ->
              IF primary.stage_type = "experimental"
              THEN Return(VALID, None, 0, <<>>)
              ELSE Return(MISSING_GOVERNANCE, None, 0, <<>>)
    ELSE Return(MISSING_GOVERNANCE, None, 0, <<>>)

\* The primary descriptor never consulted: without a fallback descriptor
\* the governance is missing.
HandleMissingGovernanceStrict(stage, substage) ==
    LET fallback == fs[FallbackPath(stage, substage)] IN
    IF Exists(fallback)
    THEN LET r == ValidateGovernanceFile(fallback) IN
         IF r.raised # "none" THEN r
         ELSE [r EXCEPT !.log = Append(r.log, "using_fallback")]
    ELSE Return(MISSING_GOVERNANCE, None, 0, <<>>)

\* _handle_missing_governance(stage_id, substage).  The fallback descriptor
\* goes through validate_governance_file; the primary descriptor is read
\* here with a bare open/json.load and .get, outside any try.
HandleMissingGovernance(stage, substage) ==
    LET fallback == fs[FallbackPath(stage, substage)]
        primary  == fs[PrimaryPath(stage)]
    IN
    IF Exists(fallback)
    THEN LET r == ValidateGovernanceFile(fallback) IN
         IF r.raised # "none" THEN r
         ELSE [r EXCEPT !.log = Append(r.log, "using_fallback")]
    ELSE IF Exists(primary)
    THEN CASE primary.kind = "directory" -> Raise("OSError", 0, <<>>)
           [] primary.kind = "malformed" -> Raise("JSONDecodeError", 0, <<>>)
           [] primary.kind \in {"scalar", "array"} -> Raise("AttributeError", 0, <<>>)
           [] OTHER ->
              IF primary.stage_type = "experimental"
              THEN Return(VALID, None, 0, <<>>)
              ELSE Return(MISSING_GOVERNANCE, None, 0, <<>>)
    ELSE Return(MISSING_GOVERNANCE, None, 0, <<>>)

\* The progress of validate_stage_governance: its results dict so far, or
\* the exception that left it.
StageAcc(raised, results, invoked, log) ==
    [raised |-> raised, results |-> results, invoked |-> invoked, log |-> log]

\* lines 98-102: the primary descriptor, validated when it exists
ValidatePrimary(stage) ==
    LET primary == fs[PrimaryPath(stage)] IN
    IF Exists(primary)
    THEN LET r == ValidateGovernanceFile(primary) IN
         StageAcc(r.raised,
                  IF r.raised = "none" THEN Put(EmptyDict, PrimaryKey, r.result)
                  ELSE EmptyDict,
                  r.invoked, r.log)
    ELSE StageAcc("none", EmptyDict, 0, <<>>)

\* lines 106-119: one iteration of the loop over the stage's substages
ValidateSubstage(acc, stage, substage) ==
    IF acc.raised # "none" THEN acc
    ELSE
      LET gov == fs[GovPath(stage, substage)] IN
      IF Exists(gov)
      THEN LET r == ValidateGovernanceFile(gov)
               with_gov == Put(acc.results, GovernanceKey(substage), r.result)
           IN
           IF r.raised # "none"
           THEN StageAcc(r.raised, acc.results, acc.invoked + r.invoked, acc.log \o r.log)
           ELSE StageAcc("none",
                         IF stage = 5 /\ substage = "optimizer"
                         THEN Put(with_gov, SecurityKey,
                                  ValidateStage5SecurityGovernance(r.config))
                         ELSE with_gov,
                         acc.invoked + r.invoked, acc.log \o r.log)
      ELSE LET r == HandleMissingGovernance(stage, substage) IN
           IF r.raised # "none"
           THEN StageAcc(r.raised, acc.results, acc.invoked + r.invoked, acc.log \o r.log)
           ELSE StageAcc("none", Put(acc.results, FallbackKey(substage), r.result),
                         acc.invoked + r.invoked, acc.log \o r.log)

RECURSIVE ValidateSubstages(_, _, _)
ValidateSubstages(acc, stage, substages) ==
    IF substages = <<>> THEN acc
    ELSE ValidateSubstages(ValidateSubstage(acc, stage, Head(substages)),
                           stage, Tail(substages))

\* validate_stage_governance(stage_id)
ValidateStageGovernance(stage) ==
    ValidateSubstages(ValidatePrimary(stage), stage,
                      IF stage \in DOMAIN substage_mapping
                      THEN substage_mapping[stage] ELSE <<>>)

----------------------------------------------------------------------------
(* Custom stages.  An entry of the main configuration's custom_stages list *)
(* carries name ("absent" when the key is missing), stage_id (present or   *)
(* not, and its number) and activated.                                     *)

CustomEntry(name, has_stage_id, id, activated) ==
    [name |-> name, has_stage_id |-> has_stage_id, stage_id |-> id,
     activated |-> activated]

\* "not stage_name or not stage_id": None, "" and 0 are false in Python
EntryIncomplete(entry) ==
    \/ entry.name \in {"absent", ""}
    \/ ~entry.has_stage_id
    \/ entry.stage_id = 0

CustomKey(entry) ==
    <<"custom", IF entry.name \in {"absent", ""} THEN "unnamed" ELSE entry.name>>

\* A custom stage whose outcome is critical halting the build.
ValidateCustomStageHalting(acc, entry) ==
    IF acc.raised # "none" THEN acc
    ELSE IF EntryIncomplete(entry)
    THEN [acc EXCEPT !.results = Put(acc.results, CustomKey(entry), INVALID_SCHEMA)]
    ELSE
      LET custom_gov == fs[CustomGovPath(entry.name)] IN
      IF Exists(custom_gov)
      THEN LET r == ValidateGovernanceFile(custom_gov) IN
           IF r.raised # "none"
           THEN StageAcc(r.raised, acc.results, acc.invoked + r.invoked, acc.log \o r.log)
           ELSE IF r.result \in {SEMVERX_VIOLATION, EXPIRED}
           THEN StageAcc("RuntimeError", acc.results, acc.invoked + r.invoked,
                         acc.log \o r.log)
           ELSE StageAcc("none", Put(acc.results, CustomKey(entry), r.result),
                         acc.invoked + r.invoked, acc.log \o r.log)
      ELSE IF Get(entry.activated, FALSE)
      THEN [acc EXCEPT !.results = Put(acc.results, CustomKey(entry), MISSING_GOVERNANCE)]
      ELSE [acc EXCEPT !.results = Put(acc.results, CustomKey(entry), VALID)]

\* lines 146-164: one iteration of the loop of validate_custom_stages
ValidateCustomStage(acc, entry) ==
    IF acc.raised # "none" THEN acc
    ELSE IF EntryIncomplete(entry)
    THEN [acc EXCEPT !.results = Put(acc.results, CustomKey(entry), INVALID_SCHEMA)]
    ELSE
      LET custom_gov == fs[CustomGovPath(entry.name)] IN
      IF Exists(custom_gov)
      THEN LET r == ValidateGovernanceFile(custom_gov) IN
           IF r.raised # "none"
           THEN StageAcc(r.raised, acc.results, acc.invoked + r.invoked, acc.log \o r.log)
           ELSE StageAcc("none", Put(acc.results, CustomKey(entry), r.result),
                         acc.invoked + r.invoked, acc.log \o r.log)
      ELSE IF Get(entry.activated, FALSE)
      THEN [acc EXCEPT !.results = Put(acc.results, CustomKey(entry), MISSING_GOVERNANCE)]
      ELSE [acc EXCEPT !.results = Put(acc.results, CustomKey(entry), VALID)]

RECURSIVE ValidateCustomStages(_, _)
\* validate_custom_stages(custom_stage_configs)
ValidateCustomStages(acc, custom_stage_configs) ==
    IF custom_stage_configs = <<>> THEN acc
    ELSE ValidateCustomStages(ValidateCustomStage(acc, Head(custom_stage_configs)),
                              Tail(custom_stage_configs))

\* lines 295-302 of generate_governance_report: the main configuration is
\* read with a bare open/json.load and .get, outside any try.
LoadCustomResults ==
    LET main_config == fs[MainConfigPath] IN
    IF ~Exists(main_config) THEN StageAcc("none", EmptyDict, 0, <<>>)
    ELSE CASE main_config.kind = "directory" -> StageAcc("OSError", EmptyDict, 0, <<>>)
           [] main_config.kind = "malformed" -> StageAcc("JSONDecodeError", EmptyDict, 0, <<>>)
           [] main_config.kind \in {"scalar", "array"} ->
                StageAcc("AttributeError", EmptyDict, 0, <<>>)
           [] OTHER -> ValidateCustomStages(StageAcc("none", EmptyDict, 0, <<>>),
                                            main_config.custom_stages)

----------------------------------------------------------------------------
\* all_results of _determine_overall_status, as the set of its members
AllResults(pipeline, custom) ==
    UNION {Values(pipeline[stage]) : stage \in DOMAIN pipeline} \cup Values(custom)

\* The tiers with EXPIRED tested before SEMVERX_VIOLATION.
DetermineOverallStatusExpiredFirst(pipeline, custom) ==
    LET all_results == AllResults(pipeline, custom) IN
    IF EXPIRED \in all_results THEN "EXPIRED_GOVERNANCE"
    ELSE IF SEMVERX_VIOLATION \in all_results THEN "CRITICAL_FAILURE"
    ELSE IF MISSING_GOVERNANCE \in all_results THEN "MISSING_GOVERNANCE"
    ELSE IF INVALID_SCHEMA \in all_results THEN "SCHEMA_VIOLATIONS"
    ELSE "COMPLIANT"

\* _determine_overall_status(pipeline_results, custom_results)
DetermineOverallStatus(pipeline, custom) ==
    LET all_results == AllResults(pipeline, custom) IN
    IF SEMVERX_VIOLATION \in all_results THEN "CRITICAL_FAILURE"
    ELSE IF EXPIRED \in all_results THEN "EXPIRED_GOVERNANCE"
    ELSE IF MISSING_GOVERNANCE \in all_results THEN "MISSING_GOVERNANCE"
    ELSE IF INVALID_SCHEMA \in all_results THEN "SCHEMA_VIOLATIONS"
    ELSE "COMPLIANT"

\* the test of lines 134-135 and of _trigger_build_halt
CriticalResults == {SEMVERX_VIOLATION, EXPIRED}

HasCriticalFailure(stage_results) ==
    \E k \in DOMAIN stage_results : stage_results[k] \in CriticalResults

\* The warning states exit like a success.
ExitCodeForLenient(overall_status) ==
    IF overall_status \in {"CRITICAL_FAILURE", "EXPIRED_GOVERNANCE"} THEN 1 ELSE 0

\* the exit code main passes to sys.exit for a report (lines 369-374)
ExitCodeFor(overall_status) ==
    IF overall_status \in {"CRITICAL_FAILURE", "EXPIRED_GOVERNANCE"} THEN 1
    ELSE IF overall_status \in {"MISSING_GOVERNANCE", "SCHEMA_VIOLATIONS"} THEN 2
    ELSE 0

----------------------------------------------------------------------------
(* The environments a run is started in.                                   *)

\* The clock, and the timestamps descriptors carry: with the two clock
\* values their ages are 91 days, 90 days + 1 s, 90 days, 90 days - 1 s,
\* 89 days, 0 and negative (a timestamp in the future).
Epoch == (ExpirationDays + 1) * SecondsPerDay

NowValues == {Epoch, Epoch + 1}

Timestamps == {0, SecondsPerDay, SecondsPerDay + 1, 2 * SecondsPerDay,
               Epoch, Epoch + SecondsPerDay}

Optimizer(model, verified, audit) ==
    [present |-> TRUE, optimizer_model |-> model,
     minimization_verified |-> verified, audit_enabled |-> audit]

\* A descriptor with the four required fields, fresh, not locked.
Fresh(stype, opt) ==
    Object(RequiredFields, "aware", Epoch, stype, "absent", "absent", opt)

\* Every descriptor content validate_governance_file is called on.
FieldSets == {RequiredFields} \cup {RequiredFields \ {f} : f \in RequiredFields} \cup {{}}

AllDescriptors ==
    {NonObject(k) : k \in {"absent", "directory", "malformed", "scalar", "array"}}
    \cup {Object(fields, "aware", ts, stype, lock, nl, NoOptimizer) :
            fields \in FieldSets, ts \in Timestamps,
            stype \in {"absent", "experimental", "stable", "unknown"},
            lock \in Tri, nl \in Tri}
    \cup {Object(fields, form, 0, stype, lock, nl, NoOptimizer) :
            fields \in FieldSets, form \in {"invalid", "naive"},
            stype \in {"absent", "stable", "unknown"},
            lock \in Tri, nl \in Tri}

\* The descriptors the pipeline runs are started with: one or more of each
\* way through validate_governance_file and the stage-5 security check.
Descriptors ==
    {NonObject(k) : k \in {"absent", "directory", "malformed", "scalar", "array"}}
    \cup {Fresh(stype, NoOptimizer) : stype \in {"absent", "experimental", "stable", "unknown"}}
    \cup {Object(RequiredFields \ {"timestamp"}, "aware", Epoch, "stable",
                 "absent", "absent", NoOptimizer),
          Object(RequiredFields, "aware", 0, "stable", "true", "true", NoOptimizer),
          Object(RequiredFields, "invalid", 0, "stable", "absent", "absent", NoOptimizer),
          Object(RequiredFields, "naive", 0, "stable", "absent", "absent", NoOptimizer),
          Object(RequiredFields, "aware", Epoch, "stable", "true", "false", NoOptimizer),
          Object(RequiredFields, "aware", Epoch, "stable", "true", "true", NoOptimizer)}

\* The same with the embedded stage_5_optimizer object, which the stage-5
\* optimizer descriptors carry.
OptimizerDescriptors ==
    {Fresh("stable", Optimizer("model", verified, audit)) :
        verified \in {"true", "false"}, audit \in {"true", "false"}}
    \cup {Fresh("stable", Optimizer("model", "absent", "true"))}

\* The custom_stages lists of the main configuration.
MaxCustomStages == 1

CustomEntries ==
    {CustomEntry("chaos", TRUE, 7, "true"), CustomEntry("chaos", TRUE, 7, "absent"),
     CustomEntry("chaos", TRUE, 0, "true"), CustomEntry("absent", TRUE, 7, "true"),
     CustomEntry("chaos", FALSE, 0, "true")}

RECURSIVE CustomLists(_)
CustomLists(n) ==
    IF n = 0 THEN {<<>>}
    ELSE CustomLists(n - 1)
         \cup {Append(l, e) : l \in {x \in CustomLists(n - 1) : Len(x) = n - 1},
                              e \in CustomEntries}

MainConfigs ==
    {NonObject(k) : k \in {"absent", "directory", "malformed", "array"}}
    \cup {[Fresh("stable", NoOptimizer) EXCEPT !.custom_stages = l] :
            l \in CustomLists(MaxCustomStages)}

\* Any regular file (its content is never read).
SomeFile == NonObject("malformed")

Substages(stage) == {substage_mapping[stage][i] : i \in DOMAIN substage_mapping[stage]}

DescriptorPaths ==
    {PrimaryPath(stage) : stage \in Stages}
    \cup UNION {{GovPath(stage, sub) : sub \in Substages(stage)} : stage \in Stages}
    \cup UNION {{FallbackPath(stage, sub) : sub \in Substages(stage)} : stage \in Stages}
    \cup {CustomGovPath("chaos")}

Paths == DescriptorPaths \cup {MainConfigPath, AuditPath}

\* What may be found at a path.
Contents(path) ==
    IF path = MainConfigPath THEN MainConfigs
    ELSE IF path = AuditPath THEN {Absent, SomeFile}
    ELSE IF path \in {GovPath(5, "optimizer"), FallbackPath(5, "optimizer")}
    THEN Descriptors \cup OptimizerDescriptors
    ELSE Descriptors

\* A descriptor with the four required fields, fresh, locked, with nlink
\* enabled: valid as long as the tool exits 0.
Locked == Object(RequiredFields, "aware", Epoch, "stable", "true", "true", NoOptimizer)

\* The complete project: every primary and every substage descriptor
\* present, fresh and locked; no fallback tree, no main configuration; the
\* audit artifact on disk.  With it goes a working nlink.
CompleteTree ==
    [path \in Paths |->
        IF path[1] \in {".riftrc", "gov"} /\ path # MainConfigPath THEN Locked
        ELSE IF path = AuditPath THEN SomeFile
        ELSE Absent]

\* The number of places in which an environment differs from the complete
\* project with a working tool.
Irregular(tree, tool) ==
    Cardinality({path \in Paths : tree[path] # CompleteTree[path]})
    + (IF tool = "exit0" THEN 0 ELSE 1)

MaxIrregular == 1

\* A path is read by one step of a run only.  fs holds what the steps so
\* far and the next one find at their paths (and the complete project's
\* files at the paths not read yet).
\* Found(tree, paths, found): found is tree with the files at some of paths
\* replaced, the environment staying within MaxIrregular places of the
\* complete project.
AnyContent == Descriptors \cup OptimizerDescriptors \cup MainConfigs

Found(tree, paths, found) ==
    \E changed \in {S \in SUBSET paths :
                      Cardinality(S) + Irregular(tree, nlink) <= MaxIrregular} :
      \E files \in [changed -> AnyContent] :
        /\ \A path \in changed :
              files[path] \in Contents(path) \ {CompleteTree[path]}
        /\ found = [path \in Paths |->
                      IF path \in changed THEN files[path] ELSE tree[path]]

\* the paths validate_stage_governance(stage) may read
StagePaths(stage) ==
    {PrimaryPath(stage)}
    \cup {GovPath(stage, sub) : sub \in Substages(stage)}
    \cup {FallbackPath(stage, sub) : sub \in Substages(stage)}
    \cup (IF stage = 5 THEN {AuditPath} ELSE {})

\* the paths the rest of generate_governance_report may read
ReportPaths == {MainConfigPath, CustomGovPath("chaos")}

----------------------------------------------------------------------------
(* The bootstrap orchestrator: script registry and dependency resolution.  *)

\* A path is the sequence of the segments of its string (str(path) split at
\* '/'); the project root and the tools directory below it.
PROJECT_ROOT == <<"", "proj">>
TOOLS_DIR == PROJECT_ROOT \o <<"tools", "ad-hoc">>

\* ScriptMetadata, with the attributes the orchestrator reads.  A mode
\* string is the sequence of its characters.
ScriptMetadata(path, depends_on, permissions, governance_policy, hooks) ==
    [path |-> path, depends_on |-> depends_on, permissions |-> permissions,
     governance_policy |-> governance_policy, hooks |-> hooks]

NoHooks == [pre |-> <<>>, post |-> <<>>]

\* the default '0755' of permissions and of the permission policy
DefaultMode == <<"0", "7", "5", "5">>

\* _parse_configuration on an entry that gives its path and depends_on
\* only: permissions '0755', no policy, no hooks (lines 279-284).
DefaultScript(name, depends_on) ==
    ScriptMetadata(TOOLS_DIR \o <<name>>, depends_on, DefaultMode, <<>>, NoHooks)

\* self.scripts[script_name].depends_on, in declared order
DependenciesReversed(registry, script_name) ==
    LET deps == registry[script_name].depends_on IN
    [i \in DOMAIN deps |-> deps[Len(deps) + 1 - i]]

Dependencies(registry, script_name) == registry[script_name].depends_on

\* The progress of resolve_execution_order: the two marks, the order so
\* far, and whether the cycle error has been raised.
DfsStart ==
    [visited |-> {}, temp_visited |-> {}, order |-> <<>>, raised |-> FALSE]

RECURSIVE Dfs(_, _, _)
RECURSIVE DfsEach(_, _, _)

\* lines 310-311: the loop over the dependencies
DfsEach(registry, st, deps) ==
    IF deps = <<>> \/ st.raised THEN st
    ELSE DfsEach(registry, Dfs(registry, st, Head(deps)), Tail(deps))

\* dfs(script_name), lines 299-317
Dfs(registry, st, script_name) ==
    IF st.raised THEN st
    ELSE IF script_name \in st.temp_visited THEN [st EXCEPT !.raised = TRUE]
    ELSE IF script_name \in st.visited THEN st
    ELSE
      LET entered == [st EXCEPT !.temp_visited = @ \cup {script_name}]
          after == IF script_name \in DOMAIN registry
                   THEN DfsEach(registry, entered, Dependencies(registry, script_name))
                   ELSE entered
      IN
      IF after.raised THEN after
      ELSE [after EXCEPT !.temp_visited = @ \ {script_name},
                         !.visited = @ \cup {script_name},
                         !.order = IF script_name \in DOMAIN registry
                                   THEN Append(@, script_name) ELSE @]

\* What resolve_execution_order produces: the order it returns, or the
\* ValueError that leaves it (and then no order).
NotResolved == [raised |-> "none", returned |-> FALSE, order |-> <<>>]

\* The order built so far returned in place of the cycle error.
ResolveExecutionOrderPartial(registry, target) ==
    LET st == Dfs(registry, DfsStart, target) IN
    [raised |-> "none", returned |-> TRUE, order |-> st.order]

\* resolve_execution_order(target_script); the order is given by the names
\* of its ScriptMetadata
ResolveExecutionOrder(registry, target) ==
    LET st == Dfs(registry, DfsStart, target) IN
    IF st.raised THEN [raised |-> "ValueError", returned |-> FALSE, order |-> <<>>]
    ELSE [raised |-> "none", returned |-> TRUE, order |-> st.order]

----------------------------------------------------------------------------
(* The bootstrap orchestrator: the phases of a node's lifecycle.           *)

OctalChars == <<"0", "1", "2", "3", "4", "5", "6", "7">>

\* int(required_mode, 8) raises ValueError unless the string is made of
\* octal digits
IsOctal(str) == str # <<>> /\ \A i \in DOMAIN str : str[i] \in Range(OctalChars)

RECURSIVE IntBase8(_)
IntBase8(str) ==
    IF str = <<>> THEN 0
    ELSE 8 * IntBase8(SubSeq(str, 1, Len(str) - 1))
         + ((CHOOSE d \in DOMAIN OctalChars : OctalChars[d] = str[Len(str)]) - 1)

\* oct(st_mode)[-3:] for a file with the given permission bits
Oct3(bits) ==
    <<OctalChars[((bits \div 64) % 8) + 1], OctalChars[((bits \div 8) % 8) + 1],
      OctalChars[(bits % 8) + 1]>>

\* _matches_pattern(path, pattern): same number of segments, each equal or '*'
MatchesPattern(path, pattern) ==
    /\ Len(pattern) = Len(path)
    /\ \A i \in DOMAIN pattern : pattern[i] = "*" \/ pattern[i] = path[i]

\* validate_permission_policy(script_path): the mode of the first rule that
\* matches, else the default mode
ValidatePermissionPolicy(script_path) ==
    LET rules == permission_config.elevation_rules
        matching == {i \in DOMAIN rules : MatchesPattern(script_path, rules[i].pattern)}
    IN
    IF matching # {}
    THEN rules[CHOOSE i \in matching : \A j \in matching : i <= j].mode
    ELSE permission_config.default_script_mode

\* elevate_permissions(script_path, required_mode) on a file that exists or
\* not: whether chmod was applied, the bits it left, the mode read back and
\* the answer.  ValueError (int) and OSError (chmod, stat) are caught and
\* answered False, without an elevation record.
ElevatePermissions(exists, required_mode) ==
    IF ~IsOctal(required_mode) \/ ~exists
    THEN [applied |-> FALSE, bits |-> 0, current_mode |-> <<>>, success |-> FALSE]
    ELSE LET bits == IntBase8(required_mode) % 4096
             current_mode == Oct3(bits)
         IN [applied |-> TRUE, bits |-> bits, current_mode |-> current_mode,
             success |-> current_mode = required_mode]

\* _validate_permissions(script_meta): the mode found on the file compared
\* with the permissions declared on the node
ValidatePermissions(script_meta, file) ==
    file.exists /\ Oct3(file.bits) = script_meta.permissions

\* Every value accepted for every key.
CheckPolicyRequirementLenient(key, value) == TRUE

\* _check_policy_requirement(key, value)
CheckPolicyRequirement(key, value) ==
    CASE key = "zero_trust_mode" -> value = "enabled"
      [] key = "stage_isolation" -> value \in {"strict", "moderate"}
      [] key = "type_safety"     -> value \in {"strict", "moderate", "lenient"}
      [] OTHER -> TRUE

\* _validate_governance_policy(script_meta).  The policy string is the
\* sequence of its comma-separated items; an item with '=' is a key and a
\* value, an item without is passed over.
ValidateGovernancePolicy(script_meta) ==
    \A i \in DOMAIN script_meta.governance_policy :
       LET policy_check == script_meta.governance_policy[i] IN
       policy_check.eq => CheckPolicyRequirement(policy_check.key, policy_check.value)

\* Path.resolve(): the '..' segments taken out
RECURSIVE ResolvePath(_, _)
ResolvePath(segments, resolved) ==
    IF segments = <<>> THEN resolved
    ELSE IF Head(segments) = ".."
    THEN ResolvePath(Tail(segments),
                     IF Len(resolved) > 1 THEN SubSeq(resolved, 1, Len(resolved) - 1)
                     ELSE resolved)
    ELSE ResolvePath(Tail(segments), Append(resolved, Head(segments)))

\* _validate_security_requirements(script_meta): the resolved path lies
\* under the project root
ValidateSecurityRequirements(script_meta) ==
    LET resolved == ResolvePath(script_meta.path, <<>>) IN
    /\ Len(resolved) >= Len(PROJECT_ROOT)
    /\ SubSeq(resolved, 1, Len(PROJECT_ROOT)) = PROJECT_ROOT

\* validate_script_execution(script_meta): the four results, as recorded in
\* the audit log
ValidationResults(script_meta, file) ==
    [permission_check      |-> ValidatePermissions(script_meta, file),
     dependency_resolution |-> TRUE,
     governance_compliance |-> ValidateGovernancePolicy(script_meta),
     security_scan         |-> ValidateSecurityRequirements(script_meta)]

\* What running a hook script or a primary script gives.
RunOutcomes == {"exit0", "nonzero", "timeout", "error"}

\* What is found at a hook's path: nothing, a script that chmod refuses, or
\* a script that runs with one of the outcomes.
HookOutcomes == {"missing", "chmod_error"} \cup RunOutcomes

\* The hook met by the loop of execute_hooks, for the history: the script
\* of the context, whether the hook's script exists, whether
\* _execute_single_hook was called for it and, if so, whether the call
\* answered True.
HookCall(script_name, hook_type, hook_name, exists, called, ok) ==
    [script |-> script_name, type |-> hook_type, hook |-> hook_name,
     exists |-> exists, called |-> called, ok |-> ok]

\* The loop left at the first hook that fails.
RECURSIVE ExecuteHooksShortCircuit(_, _, _, _, _)
ExecuteHooksShortCircuit(hook_type, hooks, outcomes, i, acc) ==
    IF i > Len(hooks) \/ ~acc.success THEN acc
    ELSE
      LET outcome == outcomes[i]
          script_name == execution_order.order[current]
          result == dry_run \/ outcome = "exit0"
          record == [type |-> hook_type, hook |-> hooks[i], success |-> result]
      IN
      ExecuteHooksShortCircuit(hook_type, hooks, outcomes, i + 1,
          CASE outcome = "missing" ->
                 [acc EXCEPT !.calls = Append(@,
                     HookCall(script_name, hook_type, hooks[i], FALSE, FALSE, FALSE))]
            [] outcome = "chmod_error" /\ ~dry_run ->
                 [acc EXCEPT !.success = FALSE,
                             !.calls = Append(@,
                     HookCall(script_name, hook_type, hooks[i], TRUE, TRUE, FALSE))]
            [] OTHER ->
                 [success |-> acc.success /\ result,
                  results |-> Append(acc.results, record),
                  calls |-> Append(acc.calls,
                     HookCall(script_name, hook_type, hooks[i], TRUE, TRUE, result))])

\* execute_hooks(hook_type, hooks, context) from hook number i on, with
\* what is found for each hook: the answer, the hook_results appended and
\* the hooks met.  A missing script is passed over; an exception of
\* _execute_single_hook (chmod) fails the phase and appends no result.
RECURSIVE ExecuteHooks(_, _, _, _, _)
ExecuteHooks(hook_type, hooks, outcomes, i, acc) ==
    IF i > Len(hooks) THEN acc
    ELSE
      LET outcome == outcomes[i]
          script_name == execution_order.order[current]
          result == dry_run \/ outcome = "exit0"
          record == [type |-> hook_type, hook |-> hooks[i], success |-> result]
      IN
      ExecuteHooks(hook_type, hooks, outcomes, i + 1,
          CASE outcome = "missing" ->
                 [acc EXCEPT !.calls = Append(@,
                     HookCall(script_name, hook_type, hooks[i], FALSE, FALSE, FALSE))]
            [] outcome = "chmod_error" /\ ~dry_run ->
                 [acc EXCEPT !.success = FALSE,
                             !.calls = Append(@,
                     HookCall(script_name, hook_type, hooks[i], TRUE, TRUE, FALSE))]
            [] OTHER ->
                 [success |-> acc.success /\ result,
                  results |-> Append(acc.results, record),
                  calls |-> Append(acc.calls,
                     HookCall(script_name, hook_type, hooks[i], TRUE, TRUE, result))])

\* _execute_main_script(script_meta, context)
ExecuteMainScript(outcome) == dry_run \/ outcome = "exit0"

\* RiftBridgeBootstrapper before _load_configuration: nothing registered,
\* nothing run
NoBootstrap ==
    /\ scripts = EmptyDict
    /\ permission_config = [elevation_rules |-> <<>>, default_script_mode |-> DefaultMode]
    /\ dry_run = FALSE
    /\ target_script = "none"
    /\ execution_order = NotResolved
    /\ current = 0
    /\ lifecycle = EmptyDict
    /\ trace = <<>>
    /\ modes = EmptyDict
    /\ elevation_log = <<>>
    /\ audit_log = <<>>
    /\ hook_results = <<>>
    /\ hook_calls = <<>>
    /\ success = "none"

----------------------------------------------------------------------------
(* The stage-0 tokenizer (riftlib/tokenizer.py).  A text is the sequence   *)
(* of its characters; positions are counted from 1 here and from 0 in the  *)
(* tokens, as Python counts them.                                          *)

\* The characters of the texts, by the classes the patterns use:
\* [a-zA-Z_], \d, \s; \w is a letter or a digit.
Letters == {"a", "c", "e", "f", "g", "n", "o", "r", "v", "E", "_"}
Digits == {"0", "1", "2"}
Spaces == {" ", "\n"}
WordChars == Letters \cup Digits

\* the literal 'governance' of the first pattern
Keyword == <<"g", "o", "v", "e", "r", "n", "a", "n", "c", "e">>

\* the position after the longest run of characters of the class that
\* starts at pos (a greedy X*)
RECURSIVE Run(_, _, _)
Run(s, pos, class) ==
    IF pos <= Len(s) /\ s[pos] \in class THEN Run(s, pos + 1, class) ELSE pos

\* the position of the first occurrence of the character at or after pos,
\* 0 when there is none ([^c]* followed by c)
RECURSIVE Find(_, _, _)
Find(s, pos, char) ==
    IF pos > Len(s) THEN 0
    ELSE IF s[pos] = char THEN pos
    ELSE Find(s, pos + 1, char)

\* the character at pos is the one given
At(s, pos, char) == pos <= Len(s) /\ s[pos] = char

\* The patterns.  Each operator gives the position after the match of its
\* pattern at pos, 0 when the pattern does not match there.

\* governance\s*\{[^}]*\}
GovernanceEnd(s, pos) ==
    IF pos + Len(Keyword) - 1 <= Len(s)
       /\ SubSeq(s, pos, pos + Len(Keyword) - 1) = Keyword
    THEN LET open == Run(s, pos + Len(Keyword), Spaces) IN
         IF At(s, open, "{") /\ Find(s, open + 1, "}") # 0
         THEN Find(s, open + 1, "}") + 1 ELSE 0
    ELSE 0

\* @[a-zA-Z_][a-zA-Z0-9_]*
MemoryRefEnd(s, pos) ==
    IF At(s, pos, "@") /\ pos + 1 <= Len(s) /\ s[pos + 1] \in Letters
    THEN Run(s, pos + 2, WordChars) ELSE 0

\* \w+\s*\([^)]*\)
FuncSigEnd(s, pos) ==
    IF pos <= Len(s) /\ s[pos] \in WordChars
    THEN LET open == Run(s, Run(s, pos, WordChars), Spaces) IN
         IF At(s, open, "(") /\ Find(s, open + 1, ")") # 0
         THEN Find(s, open + 1, ")") + 1 ELSE 0
    ELSE 0

\* \{[^}]*\}
ExprBlockEnd(s, pos) ==
    IF At(s, pos, "{") /\ Find(s, pos + 1, "}") # 0
    THEN Find(s, pos + 1, "}") + 1 ELSE 0

\* ([^"\\]|\\.)*" from pos on: a backslash takes the character after it
\* with it, unless that is a newline
RECURSIVE StringBody(_, _)
StringBody(s, pos) ==
    IF pos > Len(s) THEN 0
    ELSE IF s[pos] = "\"" THEN pos + 1
    ELSE IF s[pos] = "\\"
    THEN IF pos + 1 <= Len(s) /\ s[pos + 1] # "\n" THEN StringBody(s, pos + 2) ELSE 0
    ELSE StringBody(s, pos + 1)

\* "([^"\\]|\\.)*"
StringEnd(s, pos) == IF At(s, pos, "\"") THEN StringBody(s, pos + 1) ELSE 0

\* \d+(\.\d+)?([eE][+-]?\d+)?
NumberEnd(s, pos) ==
    IF pos <= Len(s) /\ s[pos] \in Digits
    THEN LET int == Run(s, pos, Digits)
             frac == IF At(s, int, ".") /\ Run(s, int + 1, Digits) > int + 1
                     THEN Run(s, int + 1, Digits) ELSE int
             sign == IF frac + 1 <= Len(s) /\ s[frac + 1] \in {"+", "-"}
                     THEN frac + 2 ELSE frac + 1
         IN IF frac <= Len(s) /\ s[frac] \in {"e", "E"} /\ Run(s, sign, Digits) > sign
            THEN Run(s, sign, Digits) ELSE frac
    ELSE 0

\* [a-zA-Z_][a-zA-Z0-9_]*
IdentifierEnd(s, pos) ==
    IF pos <= Len(s) /\ s[pos] \in Letters THEN Run(s, pos + 1, WordChars) ELSE 0

MatchEnd(name, s, pos) ==
    CASE name = "GOVERNANCE" -> GovernanceEnd(s, pos)
      [] name = "MEMORY_REF" -> MemoryRefEnd(s, pos)
      [] name = "FUNC_SIG"   -> FuncSigEnd(s, pos)
      [] name = "EXPR_BLOCK" -> ExprBlockEnd(s, pos)
      [] name = "STRING"     -> StringEnd(s, pos)
      [] name = "NUMBER"     -> NumberEnd(s, pos)
      [] OTHER               -> IdentifierEnd(s, pos)

\* The generic identifier tried first.
PatternsIdentifierFirst ==
    <<"IDENTIFIER", "GOVERNANCE", "MEMORY_REF", "FUNC_SIG", "EXPR_BLOCK", "STRING",
      "NUMBER">>

\* the names of patterns, in the order of the alternation of self.regex
patterns ==
    <<"GOVERNANCE", "MEMORY_REF", "FUNC_SIG", "EXPR_BLOCK", "STRING", "NUMBER",
      "IDENTIFIER">>

\* self.regex.match(text, pos): the first alternative that matches at pos
\* (its number in patterns), 0 when none does
RegexMatch(s, pos) ==
    LET matching == {i \in DOMAIN patterns : MatchEnd(patterns[i], s, pos) # 0} IN
    IF matching = {} THEN 0
    ELSE CHOOSE i \in matching : \A j \in matching : i <= j

Token(type, value, start, end) ==
    [type |-> type, value |-> value, start |-> start, end |-> end]

\* the loop of Tokenizer.tokenize from pos on
RECURSIVE TokenizeFrom(_, _, _)
TokenizeFrom(s, pos, acc) ==
    IF pos > Len(s) THEN acc
    ELSE LET match == RegexMatch(s, pos) IN
         IF match = 0 THEN TokenizeFrom(s, pos + 1, acc)
         ELSE LET typ == patterns[match]
                  end == MatchEnd(typ, s, pos)
              IN TokenizeFrom(s, end,
                     Append(acc, Token(typ, SubSeq(s, pos, end - 1), pos - 1, end - 1)))

\* tokenize(text)
Tokenize(s) == TokenizeFrom(s, 1, <<>>)

\* tokenize has not been called
NoTokens ==
    /\ text = <<>>
    /\ parts = <<>>
    /\ tokens = <<>>

----------------------------------------------------------------------------
(* The state before anything has run.                                      *)

NoReport ==
    [made |-> FALSE, pipeline_validation |-> EmptyDict,
     custom_stage_validation |-> EmptyDict, validation_log |-> <<>>,
     overall_status |-> "none"]

NoCall == [made |-> FALSE, file |-> Absent, ret |-> Raise("none", 0, <<>>)]

\* A message is kept out of the log when the log holds it already.
LogValidationErrorOnce(log, messages) ==
    log \o SelectSeq(messages, LAMBDA m : m \notin Range(log))

\* _log_validation_error, for the messages of a step in their order: each
\* is appended to self.validation_log
LogValidationError(log, messages) == log \o messages

\* no run of generate_governance_report has ended yet
NoRun ==
    [made |-> FALSE, ended |-> "none", pipeline_validation |-> EmptyDict,
     custom_stage_validation |-> EmptyDict, overall_status |-> "none",
     validation_log |-> <<>>]

\* RIFTGovernanceValidator.__init__ and the entry of main
Fresh0(entry) ==
    /\ pc = entry
    /\ stage_id = 0
    /\ pipeline_results = EmptyDict
    /\ custom_results = EmptyDict
    /\ validation_log = <<>>
    /\ report = NoReport
    /\ exit_code = -1     \* main has not exited
    /\ evaluated = <<>>
    /\ nlink_runs = 0
    /\ call = NoCall
    /\ previous = NoRun

----------------------------------------------------------------------------
(* main -> generate_governance_report -> validate_complete_pipeline        *)

Init ==
    /\ nlink \in {t \in ToolOutcomes : Irregular(CompleteTree, t) <= MaxIrregular}
    /\ Found(CompleteTree, StagePaths(0), fs)
    /\ now = Epoch
    /\ Fresh0("pipeline")
    /\ NoTokens
    /\ NoBootstrap

\* A halt that is logged but not raised.
TriggerBuildHaltSwallowed(stage_results) == FALSE

\* _trigger_build_halt: logs the halt message and raises RuntimeError
TriggerBuildHalt(stage_results) == HasCriticalFailure(stage_results)

\* One iteration of the loop of validate_complete_pipeline (lines 129-136).
\* With reveal, the step also fixes what the next step finds at its paths;
\* without, the project tree is whole from the start and stays as it is.
ValidateStageIn(reveal) ==
    /\ pc = "pipeline"
    /\ stage_id < NumStages
    /\ LET r == ValidateStageGovernance(stage_id) IN
       /\ evaluated' = Append(evaluated, stage_id)
       /\ nlink_runs' = nlink_runs + r.invoked
       /\ IF r.raised # "none"
          THEN /\ pc' = "raised"
               /\ validation_log' = LogValidationError(validation_log, r.log)
               /\ UNCHANGED <<fs, stage_id, pipeline_results>>
          ELSE /\ pipeline_results' = Put(pipeline_results, stage_id, r.results)
               /\ IF HasCriticalFailure(r.results) /\ TriggerBuildHalt(r.results)
                  THEN /\ pc' = "halt"
                       /\ validation_log' =
                             LogValidationError(validation_log, r.log \o <<"build_halt">>)
                       /\ UNCHANGED <<fs, stage_id>>
                  ELSE /\ pc' = IF stage_id + 1 < NumStages THEN "pipeline" ELSE "custom"
                       /\ validation_log' = LogValidationError(validation_log, r.log)
                       /\ stage_id' = stage_id + 1
                       /\ IF reveal
                          THEN Found(fs, IF stage_id + 1 < NumStages
                                         THEN StagePaths(stage_id + 1)
                                         ELSE ReportPaths, fs')
                          ELSE fs' = fs
    /\ UNCHANGED <<nlink, now, custom_results, report, exit_code, call, previous>>
    /\ UNCHANGED bvars
    /\ UNCHANGED tvars

ValidateStage == ValidateStageIn(TRUE)

\* The rest of generate_governance_report once the pipeline returned (lines
\* 295-311): the custom stages, then the report.
GenerateReport ==
    /\ pc = "custom"
    /\ LET c == LoadCustomResults
           log == LogValidationError(validation_log, c.log)
       IN
       /\ nlink_runs' = nlink_runs + c.invoked
       /\ validation_log' = log
       /\ IF c.raised # "none"
          THEN /\ pc' = "raised"
               /\ UNCHANGED <<custom_results, report>>
          ELSE /\ pc' = "reported"
               /\ custom_results' = c.results
               /\ report' = [made |-> TRUE,
                             pipeline_validation |-> pipeline_results,
                             custom_stage_validation |-> c.results,
                             validation_log |-> log,
                             overall_status |->
                                 DetermineOverallStatus(pipeline_results, c.results)]
    /\ UNCHANGED <<fs, nlink, now, stage_id, pipeline_results, exit_code, evaluated, call, previous>>
    /\ UNCHANGED bvars
    /\ UNCHANGED tvars

\* main, lines 368-374: the exit code of a report
MainExit ==
    /\ pc = "reported"
    /\ exit_code' = ExitCodeFor(report.overall_status)
    /\ pc' = "exited"
    /\ UNCHANGED <<fs, nlink, now, stage_id, pipeline_results, custom_results,
                   validation_log, report, evaluated, nlink_runs, call, previous>>
    /\ UNCHANGED bvars
    /\ UNCHANGED tvars

\* main, lines 376-378: the build halt (RuntimeError) is caught, exit code 1
MainFatal ==
    /\ pc = "halt"
    /\ exit_code' = 1
    /\ pc' = "exited"
    /\ UNCHANGED <<fs, nlink, now, stage_id, pipeline_results, custom_results,
                   validation_log, report, evaluated, nlink_runs, call, previous>>
    /\ UNCHANGED bvars
    /\ UNCHANGED tvars

\* main catches RuntimeError only: any other exception ends the interpreter
\* with a traceback and exit code 1
MainUncaught ==
    /\ pc = "raised"
    /\ exit_code' = 1
    /\ pc' = "crashed"
    /\ UNCHANGED <<fs, nlink, now, stage_id, pipeline_results, custom_results,
                   validation_log, report, evaluated, nlink_runs, call, previous>>
    /\ UNCHANGED bvars
    /\ UNCHANGED tvars

Next == ValidateStage \/ GenerateReport \/ MainExit \/ MainFatal \/ MainUncaught

Spec == Init /\ [][Next]_vars

----------------------------------------------------------------------------
(* validate_governance_file called on one descriptor.                      *)

CalledPath == GovPath(0, "tokenizer")

InitFile ==
    /\ \E f \in AllDescriptors : fs = [CompleteTree EXCEPT ![CalledPath] = f]
    /\ nlink \in ToolOutcomes
    /\ now \in NowValues
    /\ Fresh0("file")
    /\ NoTokens
    /\ NoBootstrap

CallValidateGovernanceFile ==
    /\ pc = "file"
    /\ LET r == ValidateGovernanceFile(fs[CalledPath]) IN
       /\ call' = [made |-> TRUE, file |-> fs[CalledPath], ret |-> r]
       /\ validation_log' = LogValidationError(validation_log, r.log)
       /\ nlink_runs' = nlink_runs + r.invoked
    /\ pc' = "file_done"
    /\ UNCHANGED <<fs, nlink, now, stage_id, pipeline_results, custom_results,
                   report, exit_code, evaluated, previous>>
    /\ UNCHANGED bvars
    /\ UNCHANGED tvars

SpecFile == InitFile /\ [][CallValidateGovernanceFile]_vars

----------------------------------------------------------------------------
(* _determine_overall_status called on collections of outcomes.            *)

MaxStatusStages == 2

\* results of one stage: none, or one outcome
StageDicts ==
    {EmptyDict} \cup {Put(EmptyDict, PrimaryKey, r) : r \in ValidationResult}

\* results of the custom stages: none, one or two outcomes
CustomDicts ==
    {EmptyDict}
    \cup {Put(EmptyDict, <<"custom", "chaos">>, r) : r \in ValidationResult}
    \cup {Put(Put(EmptyDict, <<"custom", "chaos">>, r), <<"custom", "unnamed">>, q) :
            r \in ValidationResult, q \in ValidationResult}

InitStatus ==
    /\ fs = CompleteTree
    /\ nlink = "exit0"
    /\ now = Epoch
    /\ pc = "status"
    /\ stage_id = 0
    /\ pipeline_results \in [0 .. (MaxStatusStages - 1) -> StageDicts]
    /\ custom_results \in CustomDicts
    /\ validation_log = <<>>
    /\ report = NoReport
    /\ exit_code = -1
    /\ evaluated = <<>>
    /\ nlink_runs = 0
    /\ call = NoCall
    /\ previous = NoRun
    /\ NoTokens
    /\ NoBootstrap

CallDetermineOverallStatus ==
    /\ pc = "status"
    /\ report' = [made |-> TRUE,
                  pipeline_validation |-> pipeline_results,
                  custom_stage_validation |-> custom_results,
                  validation_log |-> validation_log,
                  overall_status |->
                      DetermineOverallStatus(pipeline_results, custom_results)]
    /\ pc' = "status_done"
    /\ UNCHANGED <<fs, nlink, now, stage_id, pipeline_results, custom_results,
                   validation_log, exit_code, evaluated, nlink_runs, call, previous>>
    /\ UNCHANGED bvars
    /\ UNCHANGED tvars

SpecStatus == InitStatus /\ [][CallDetermineOverallStatus]_vars

----------------------------------------------------------------------------
(* One stage on any content of its paths: the first iteration of the loop  *)
(* of validate_complete_pipeline, and what main makes of an exception.     *)

\* The primary descriptors: with each stage_type of the enum.
PrimaryDescriptors == Descriptors \cup {Fresh("legacy", NoOptimizer)}

\* The project with the three paths of stage 0 holding the given contents.
StageTree(primary, gov, fallback) ==
    [CompleteTree EXCEPT ![PrimaryPath(0)] = primary,
                         ![GovPath(0, "tokenizer")] = gov,
                         ![FallbackPath(0, "tokenizer")] = fallback]

InitStage ==
    /\ \E primary \in PrimaryDescriptors, gov \in Descriptors, fallback \in Descriptors :
          fs = StageTree(primary, gov, fallback)
    /\ nlink \in ToolOutcomes
    /\ now = Epoch
    /\ Fresh0("stage")
    /\ NoTokens
    /\ NoBootstrap

\* lines 129-136 for stage_id = 0; pc "stage_done" is the loop about to go
\* on with the next stage
ValidateFirstStage ==
    /\ pc = "stage"
    /\ LET r == ValidateStageGovernance(stage_id) IN
       /\ evaluated' = Append(evaluated, stage_id)
       /\ nlink_runs' = nlink_runs + r.invoked
       /\ IF r.raised # "none"
          THEN /\ pc' = "raised"
               /\ validation_log' = LogValidationError(validation_log, r.log)
               /\ UNCHANGED pipeline_results
          ELSE /\ pipeline_results' = Put(pipeline_results, stage_id, r.results)
               /\ IF HasCriticalFailure(r.results) /\ TriggerBuildHalt(r.results)
                  THEN /\ pc' = "halt"
                       /\ validation_log' =
                             LogValidationError(validation_log, r.log \o <<"build_halt">>)
                  ELSE /\ pc' = "stage_done"
                       /\ validation_log' = LogValidationError(validation_log, r.log)
    /\ UNCHANGED <<fs, nlink, now, stage_id, custom_results, report, exit_code, call, previous>>
    /\ UNCHANGED bvars
    /\ UNCHANGED tvars

NextStage == ValidateFirstStage \/ MainFatal \/ MainUncaught

SpecStage == InitStage /\ [][NextStage]_vars

----------------------------------------------------------------------------
(* _handle_missing_governance called for a substage whose dedicated        *)
(* descriptor is absent.                                                   *)

InitMissing ==
    /\ \E primary \in PrimaryDescriptors, fallback \in Descriptors :
          fs = StageTree(primary, Absent, fallback)
    /\ nlink \in ToolOutcomes
    /\ now = Epoch
    /\ Fresh0("missing")
    /\ NoTokens
    /\ NoBootstrap

CallHandleMissingGovernance ==
    /\ pc = "missing"
    /\ LET r == HandleMissingGovernance(0, "tokenizer") IN
       /\ call' = [made |-> TRUE, file |-> fs[PrimaryPath(0)], ret |-> r]
       /\ validation_log' = LogValidationError(validation_log, r.log)
       /\ nlink_runs' = nlink_runs + r.invoked
    /\ pc' = "missing_done"
    /\ UNCHANGED <<fs, nlink, now, stage_id, pipeline_results, custom_results,
                   report, exit_code, evaluated, previous>>
    /\ UNCHANGED bvars
    /\ UNCHANGED tvars

SpecMissing == InitMissing /\ [][CallHandleMissingGovernance]_vars

----------------------------------------------------------------------------
(* resolve_execution_order called on a registry.                           *)

\* The registered names, and a name no script is registered under.
Names == {"A", "B", "C"}
Undeclared == "X"

MaxDeps == 2

\* depends_on lists: up to MaxDeps distinct names, declared or not
RECURSIVE DependsOnLists(_)
DependsOnLists(n) ==
    IF n = 0 THEN {<<>>}
    ELSE DependsOnLists(n - 1)
         \cup {Append(l, d) : l \in {x \in DependsOnLists(n - 1) : Len(x) = n - 1},
                              d \in Names \cup {Undeclared}}

DistinctLists(n) ==
    {l \in DependsOnLists(n) : \A i, j \in DOMAIN l : l[i] = l[j] => i = j}

Registries ==
    {[name \in Names |-> DefaultScript(name, deps[name])] :
        deps \in [Names -> DistinctLists(MaxDeps)]}

\* bootstrap state in which only the registry and the target are set
Loaded(registries, targets) ==
    /\ scripts \in registries
    /\ target_script \in targets
    /\ permission_config = [elevation_rules |-> <<>>, default_script_mode |-> DefaultMode]
    /\ dry_run = FALSE
    /\ execution_order = NotResolved
    /\ current = 0
    /\ lifecycle = [name \in DOMAIN scripts |-> "Pending"]
    /\ trace = <<>>
    /\ modes = [name \in DOMAIN scripts |-> [exists |-> TRUE, bits |-> 0]]
    /\ elevation_log = <<>>
    /\ audit_log = <<>>
    /\ hook_results = <<>>
    /\ hook_calls = <<>>
    /\ success = "none"

InitResolve ==
    /\ fs = CompleteTree
    /\ nlink = "exit0"
    /\ now = Epoch
    /\ Fresh0("resolve")
    /\ NoTokens
    /\ Loaded(Registries, Names \cup {Undeclared})

CallResolveExecutionOrder ==
    /\ pc = "resolve"
    /\ execution_order' = ResolveExecutionOrder(scripts, target_script)
    /\ pc' = "resolve_done"
    /\ UNCHANGED <<gvars, exit_code>>
    /\ UNCHANGED tvars
    /\ UNCHANGED <<scripts, permission_config, dry_run, target_script, current,
                   lifecycle, trace, modes, elevation_log, audit_log, hook_results, hook_calls,
                   success>>

SpecResolve == InitResolve /\ [][CallResolveExecutionOrder]_vars

----------------------------------------------------------------------------
(* bootstrap_target: the resolution, then the lifecycle of each node of    *)
(* the order, phase by phase.                                              *)

MaxHooks == 2

HookNames == <<"lint", "sign", "notify">>

\* The dependency graphs of the runs: a chain with a node reached twice, a
\* dependency next to an independent node, a cycle, an undeclared name.
BootGraphs ==
    {[A |-> <<"B", "C">>, B |-> <<"C">>, C |-> <<>>],
     [A |-> <<"B">>, B |-> <<>>, C |-> <<>>],
     [A |-> <<"B">>, B |-> <<"C">>, C |-> <<"A">>],
     [A |-> <<"C">>, B |-> <<>>, C |-> <<"C">>],
     [A |-> <<Undeclared, "B">>, B |-> <<>>, C |-> <<>>]}

PolicyItem(key, value) == [eq |-> TRUE, key |-> key, value |-> value]

\* The ways a script is declared: with hooks and a policy that passes;
\* bare; with the default permissions; with a policy that fails; with a
\* path that leaves the project.
ProfileKinds == {"hooked", "bare", "default_mode", "bad_policy", "outside"}

Profile(kind, name) ==
    CASE kind = "hooked" ->
           ScriptMetadata(TOOLS_DIR \o <<name>>, <<>>, <<"7", "5", "5">>,
                          <<PolicyItem("zero_trust_mode", "enabled"),
                            [eq |-> FALSE, key |-> "audited", value |-> ""],
                            PolicyItem("owner", "core")>>,
                          [pre |-> SubSeq(HookNames, 1, MaxHooks),
                           post |-> <<HookNames[Len(HookNames)]>>])
      [] kind = "bare" ->
           ScriptMetadata(TOOLS_DIR \o <<name>>, <<>>, <<"7", "5", "5">>, <<>>, NoHooks)
      [] kind = "default_mode" -> DefaultScript(name, <<>>)
      [] kind = "bad_policy" ->
           ScriptMetadata(TOOLS_DIR \o <<name>>, <<>>, <<"7", "5", "5">>,
                          <<PolicyItem("type_safety", "strict"),
                            PolicyItem("stage_isolation", "none")>>, NoHooks)
      [] OTHER ->
           ScriptMetadata(TOOLS_DIR \o <<"..", "..", "..", "etc", name>>, <<>>,
                          <<"7", "5", "5">>, <<>>, NoHooks)

BootRegistries ==
    {[name \in Names |-> [Profile(kinds[name], name) EXCEPT !.depends_on = graph[name]]] :
        graph \in BootGraphs, kinds \in [Names -> ProfileKinds]}

\* The permission policies: a three-digit default; the default '0755'; a
\* rule for every script of the tools directory; a rule for one script
\* over a default that is no octal number.
PermissionConfigs ==
    {[elevation_rules |-> <<>>, default_script_mode |-> <<"7", "5", "5">>],
     [elevation_rules |-> <<>>, default_script_mode |-> DefaultMode],
     [elevation_rules |-> <<[pattern |-> TOOLS_DIR \o <<"*">>, mode |-> <<"7", "5", "0">>]>>,
      default_script_mode |-> <<"7", "5", "5">>],
     [elevation_rules |-> <<[pattern |-> <<"tools", "ad-hoc", "*">>, mode |-> <<"7", "0", "0">>],
                            [pattern |-> TOOLS_DIR \o <<"A">>, mode |-> <<"7", "5", "5">>]>>,
      default_script_mode |-> <<"r", "w", "x">>]}

InitBootstrap ==
    /\ fs = CompleteTree
    /\ nlink = "exit0"
    /\ now = Epoch
    /\ Fresh0("bootstrap")
    /\ NoTokens
    /\ scripts \in BootRegistries
    /\ target_script \in {"A", "C", Undeclared}
    /\ permission_config \in PermissionConfigs
    /\ dry_run \in BOOLEAN
    /\ execution_order = NotResolved
    /\ current = 0
    /\ lifecycle = [name \in DOMAIN scripts |-> "Pending"]
    /\ trace = <<>>
    /\ modes = [name \in DOMAIN scripts |-> [exists |-> TRUE, bits |-> 0]]
    /\ elevation_log = <<>>
    /\ audit_log = <<>>
    /\ hook_results = <<>>
    /\ hook_calls = <<>>
    /\ success = "none"

\* The phases of _execute_script_with_lifecycle, in the order of its code.
Phases == <<"PermissionCheck", "GovernanceCheck", "PreHooks", "Executing", "PostHooks">>

NextPhase(phase) ==
    IF phase = Phases[Len(Phases)] THEN "Completed"
    ELSE Phases[(CHOOSE i \in DOMAIN Phases : Phases[i] = phase) + 1]

\* lines 386-389 and 400-402: the order is resolved; the cycle error is
\* caught and answered False; an empty order leaves nothing to run
ResolveOrder ==
    /\ pc = "bootstrap"
    /\ LET r == ResolveExecutionOrder(scripts, target_script) IN
       /\ execution_order' = r
       /\ IF r.raised # "none"
          THEN /\ success' = "false"
               /\ pc' = "done"
               /\ UNCHANGED <<current, lifecycle>>
          ELSE IF r.order = <<>>
          THEN /\ success' = "true"
               /\ pc' = "done"
               /\ UNCHANGED <<current, lifecycle>>
          ELSE /\ current' = 1
               /\ lifecycle' = [lifecycle EXCEPT ![r.order[1]] = Phases[1]]
               /\ pc' = "loop"
               /\ UNCHANGED success
    /\ UNCHANGED <<gvars, exit_code>>
    /\ UNCHANGED tvars
    /\ UNCHANGED <<scripts, permission_config, dry_run, target_script, trace, modes,
                   elevation_log, audit_log, hook_results, hook_calls>>

\* script_meta of the loop of bootstrap_target
Node == execution_order.order[current]

\* A failed phase passed over: the method goes on with the next phase.
PhaseFailedIgnored(phase) ==
    /\ trace' = Append(trace, [node |-> Node, phase |-> phase, ok |-> FALSE])
    /\ lifecycle' = [lifecycle EXCEPT ![Node] = NextPhase(phase)]
    /\ UNCHANGED <<success, pc, current>>

\* A failed node passed over: the loop goes on with the next script.
PhaseFailedNextNode(phase) ==
    /\ trace' = Append(trace, [node |-> Node, phase |-> phase, ok |-> FALSE])
    /\ IF current < Len(execution_order.order)
       THEN /\ lifecycle' = [lifecycle EXCEPT
                               ![Node] = "Failed",
                               ![execution_order.order[current + 1]] = Phases[1]]
            /\ current' = current + 1
            /\ UNCHANGED <<success, pc>>
       ELSE /\ lifecycle' = [lifecycle EXCEPT ![Node] = "Failed"]
            /\ success' = "false"
            /\ pc' = "done"
            /\ UNCHANGED current

\* "return False" of _execute_script_with_lifecycle, then lines 393-395
PhaseFailed(phase) ==
    /\ trace' = Append(trace, [node |-> Node, phase |-> phase, ok |-> FALSE])
    /\ lifecycle' = [lifecycle EXCEPT ![Node] = "Failed"]
    /\ success' = "false"
    /\ pc' = "done"
    /\ UNCHANGED current

\* the method goes on with its next phase
PhasePassed(phase) ==
    /\ trace' = Append(trace, [node |-> Node, phase |-> phase, ok |-> TRUE])
    /\ lifecycle' = [lifecycle EXCEPT ![Node] = NextPhase(phase)]
    /\ UNCHANGED <<success, pc, current>>

\* "return True" of line 445; the loop takes the next script of the order,
\* or bootstrap_target returns True after the last
NodeCompleted(phase) ==
    /\ trace' = Append(trace, [node |-> Node, phase |-> phase, ok |-> TRUE])
    /\ IF current < Len(execution_order.order)
       THEN /\ lifecycle' = [lifecycle EXCEPT
                               ![Node] = "Completed",
                               ![execution_order.order[current + 1]] = Phases[1]]
            /\ current' = current + 1
            /\ UNCHANGED <<success, pc>>
       ELSE /\ lifecycle' = [lifecycle EXCEPT ![Node] = "Completed"]
            /\ success' = "true"
            /\ pc' = "done"
            /\ UNCHANGED current

InPhase(phase) == pc = "loop" /\ lifecycle[Node] = phase

\* lines 408-412
PermissionCheck ==
    /\ InPhase("PermissionCheck")
    /\ \E exists \in BOOLEAN :
         LET script_path == scripts[Node].path
             required_mode == ValidatePermissionPolicy(script_path)
             r == ElevatePermissions(exists, required_mode)
         IN
         /\ modes' = [modes EXCEPT ![Node] =
                        [exists |-> exists, bits |-> IF r.applied THEN r.bits ELSE @.bits]]
         /\ elevation_log' =
               IF r.applied
               THEN Append(elevation_log,
                           [path |-> script_path, required_mode |-> required_mode,
                            applied_mode |-> r.current_mode, success |-> r.success])
               ELSE elevation_log
         /\ IF r.success THEN PhasePassed("PermissionCheck")
            ELSE PhaseFailed("PermissionCheck")
    /\ UNCHANGED <<gvars, exit_code>>
    /\ UNCHANGED tvars
    /\ UNCHANGED <<scripts, permission_config, dry_run, target_script, execution_order,
                   audit_log, hook_results, hook_calls>>

\* lines 414-417
GovernanceCheck ==
    /\ InPhase("GovernanceCheck")
    /\ LET validation_results == ValidationResults(scripts[Node], modes[Node]) IN
       /\ audit_log' = Append(audit_log, [script |-> Node, validation |-> validation_results])
       /\ IF \A k \in DOMAIN validation_results : validation_results[k]
          THEN PhasePassed("GovernanceCheck")
          ELSE PhaseFailed("GovernanceCheck")
    /\ UNCHANGED <<gvars, exit_code>>
    /\ UNCHANGED tvars
    /\ UNCHANGED <<scripts, permission_config, dry_run, target_script, execution_order,
                   modes, elevation_log, hook_results, hook_calls>>

\* "hooks and not execute_hooks(hook_type, hooks, context)": whether the
\* phase fails, and hook_results after it
HookPhase(hook_type, hooks, outcomes) ==
    IF hooks = <<>>
    THEN [success |-> TRUE, results |-> hook_results, calls |-> hook_calls]
    ELSE ExecuteHooks(hook_type, hooks, outcomes, 1,
                      [success |-> TRUE, results |-> hook_results,
                       calls |-> hook_calls])

\* lines 419-431
PreHooks ==
    /\ InPhase("PreHooks")
    /\ \E outcomes \in [DOMAIN scripts[Node].hooks.pre -> HookOutcomes] :
         LET r == HookPhase("pre", scripts[Node].hooks.pre, outcomes) IN
         /\ hook_results' = r.results
         /\ hook_calls' = r.calls
         /\ IF r.success THEN PhasePassed("PreHooks")
            ELSE PhaseFailed("PreHooks")
    /\ UNCHANGED <<gvars, exit_code>>
    /\ UNCHANGED tvars
    /\ UNCHANGED <<scripts, permission_config, dry_run, target_script, execution_order,
                   modes, elevation_log, audit_log>>

\* lines 433-436
Executing ==
    /\ InPhase("Executing")
    /\ \E outcome \in RunOutcomes :
         IF ExecuteMainScript(outcome) THEN PhasePassed("Executing")
         ELSE PhaseFailed("Executing")
    /\ UNCHANGED <<gvars, exit_code>>
    /\ UNCHANGED tvars
    /\ UNCHANGED <<scripts, permission_config, dry_run, target_script, execution_order,
                   modes, elevation_log, audit_log, hook_results, hook_calls>>

\* lines 438-445
PostHooks ==
    /\ InPhase("PostHooks")
    /\ \E outcomes \in [DOMAIN scripts[Node].hooks.post -> HookOutcomes] :
         LET r == HookPhase("post", scripts[Node].hooks.post, outcomes) IN
         /\ hook_results' = r.results
         /\ hook_calls' = r.calls
         /\ IF r.success THEN NodeCompleted("PostHooks")
            ELSE PhaseFailed("PostHooks")
    /\ UNCHANGED <<gvars, exit_code>>
    /\ UNCHANGED tvars
    /\ UNCHANGED <<scripts, permission_config, dry_run, target_script, execution_order,
                   modes, elevation_log, audit_log>>

\* main, lines 522-529
BootstrapExit ==
    /\ pc = "done"
    /\ exit_code' = IF success = "true" THEN 0 ELSE 1
    /\ pc' = "exited"
    /\ UNCHANGED gvars
    /\ UNCHANGED bvars
    /\ UNCHANGED tvars

NextBootstrap ==
    \/ ResolveOrder
    \/ PermissionCheck
    \/ GovernanceCheck
    \/ PreHooks
    \/ Executing
    \/ PostHooks
    \/ BootstrapExit

SpecBootstrap == InitBootstrap /\ [][NextBootstrap]_vars

----------------------------------------------------------------------------
(* generate_governance_report called twice on one validator, over a        *)
(* project tree that is whole from the start, stays as it is and holds no  *)
(* descriptor with the SemVerX lock.                                       *)

\* semverx_lock is not set
Unlocked(f) == f.semverx_lock # "true"

\* The layouts of a project without locks: every descriptor at its
\* dedicated place; the substage descriptors in the fallback tree instead;
\* a main configuration with one custom stage.
UnlockedTree ==
    [path \in Paths |->
        IF CompleteTree[path] = Locked THEN Fresh("stable", NoOptimizer)
        ELSE CompleteTree[path]]

FallbackTree ==
    [path \in Paths |->
        IF \E stage \in Stages : \E sub \in Substages(stage) : path = GovPath(stage, sub)
        THEN Absent
        ELSE IF \E stage \in Stages : \E sub \in Substages(stage) :
                   path = FallbackPath(stage, sub)
        THEN Fresh("stable", NoOptimizer)
        ELSE UnlockedTree[path]]

CustomTree ==
    [UnlockedTree EXCEPT ![MainConfigPath] =
        [Fresh("stable", NoOptimizer) EXCEPT
            !.custom_stages = <<CustomEntry("chaos", TRUE, 7, "true")>>]]

Layouts == {UnlockedTree, FallbackTree, CustomTree}

\* What may be found at a path of such a project: the contents without
\* lock, and descriptors of every age.
UnlockedContents(path) ==
    {f \in Contents(path) : Unlocked(f)}
    \cup (IF path \in DescriptorPaths
          THEN {Object(RequiredFields, "aware", ts, "stable", "absent", "absent",
                       NoOptimizer) : ts \in Timestamps}
          ELSE {})

\* a layout, as it is or with one file replaced
UnlockedTrees ==
    Layouts
    \cup UNION {{[tree EXCEPT ![path] = f] : f \in UnlockedContents(path)} :
                   tree \in Layouts, path \in Paths}

InitTwice ==
    /\ fs \in UnlockedTrees
    /\ nlink \in ToolOutcomes
    /\ now = Epoch
    /\ Fresh0("pipeline")
    /\ NoTokens
    /\ NoBootstrap

ValidateStageFixed == ValidateStageIn(FALSE)

\* the descriptor passes the freshness check at the time
FreshAt(f, time) == (time - f.timestamp) < expiration_window

\* The first run has ended, by its report, by the build halt or by another
\* exception; the caller starts the second on the same validator.  The
\* validation log is kept; the clock has moved on without taking any
\* descriptor of the tree over its expiry.
SecondRun ==
    /\ pc \in {"reported", "halt", "raised"}
    /\ ~previous.made
    /\ previous' = [made |-> TRUE, ended |-> pc,
                    pipeline_validation |-> pipeline_results,
                    custom_stage_validation |-> custom_results,
                    overall_status |-> report.overall_status,
                    validation_log |-> validation_log]
    /\ now' \in {time \in NowValues :
                   /\ time >= now
                   /\ \A path \in Paths :
                         (fs[path].kind = "object" /\ fs[path].ts_form = "aware")
                            => (FreshAt(fs[path], time) <=> FreshAt(fs[path], now))}
    /\ pc' = "pipeline"
    /\ stage_id' = 0
    /\ pipeline_results' = EmptyDict
    /\ custom_results' = EmptyDict
    /\ report' = NoReport
    /\ UNCHANGED <<fs, nlink, validation_log, exit_code, evaluated, nlink_runs, call>>
    /\ UNCHANGED bvars
    /\ UNCHANGED tvars

NextTwice == ValidateStageFixed \/ GenerateReport \/ SecondRun

SpecTwice == InitTwice /\ [][NextTwice]_vars

----------------------------------------------------------------------------
(* main, over a project tree that is whole from the start: a tree without  *)
(* locks, or the custom-stage layout with the lock on the custom stage's   *)
(* descriptor.                                                             *)

LockedCustomTree == [CustomTree EXCEPT ![CustomGovPath("chaos")] = Locked]

InitCli ==
    /\ fs \in UnlockedTrees \cup {LockedCustomTree}
    /\ nlink \in ToolOutcomes
    /\ now = Epoch
    /\ Fresh0("pipeline")
    /\ NoTokens
    /\ NoBootstrap

NextCli == ValidateStageFixed \/ GenerateReport \/ MainExit \/ MainFatal \/ MainUncaught

SpecCli == InitCli /\ [][NextCli]_vars

----------------------------------------------------------------------------
(* tokenize, called on a text.                                             *)

\* The constructs of the language, as two sources write them.
Construct(kind, writing) ==
    CASE kind = "GOVERNANCE" ->
           IF writing = 1 THEN Keyword \o <<" ", "{", "a", "}">>
           ELSE Keyword \o <<"{", "}">>
      [] kind = "FUNC_SIG" ->
           IF writing = 1 THEN <<"f", "(", "a", ")">> ELSE <<"f", "1", " ", "(", ")">>
      [] kind = "MEMORY_REF" ->
           IF writing = 1 THEN <<"@", "a", "1">> ELSE <<"@", "_">>
      [] kind = "STRING" ->
           IF writing = 1 THEN <<"\"", "a", "\"">> ELSE <<"\"", "\\", "\"", "\"">>
      [] OTHER ->
           IF writing = 1 THEN <<"1", "2">> ELSE <<"1", ".", "0", "E", "+", "2">>

ConstructKinds == {"GOVERNANCE", "FUNC_SIG", "MEMORY_REF", "STRING", "NUMBER"}

\* the sequences of distinct kinds
RECURSIVE Arrangements(_)
Arrangements(kinds) ==
    {<<>>} \cup UNION {{<<k>> \o rest : rest \in Arrangements(kinds \ {k})} : k \in kinds}

\* The constructs of the arrangement written one after the other with the
\* separator between them, from the position given: the text, and for each
\* construct its kind and the span it takes (counted from 0).
RECURSIVE Written(_, _, _, _)
Written(kinds, writing, separator, acc) ==
    IF kinds = <<>> THEN acc
    ELSE LET lead == IF acc.text = <<>> THEN <<>> ELSE <<separator>>
             start == Len(acc.text) + Len(lead)
             chars == Construct(Head(kinds), writing)
         IN Written(Tail(kinds), writing, separator,
                    [text |-> acc.text \o lead \o chars,
                     parts |-> Append(acc.parts,
                                      [kind |-> Head(kinds), start |-> start,
                                       end |-> start + Len(chars)])])

\* The sources of constructs that stand on their own.
WrittenSources ==
    {Written(kinds, writing, separator, [text |-> <<>>, parts |-> <<>>]) :
        kinds \in Arrangements(ConstructKinds) \ {<<>>},
        writing \in {1, 2}, separator \in Spaces}

\* Sources in which the number stands inside the function signature: the
\* three other constructs on their own, in any order, then f(12).
NestedSources ==
    {Written(kinds, 1, separator, [text |-> <<>>, parts |-> <<>>]).text
        \o <<separator, "f", "(", "1", "2", ")">> :
        kinds \in {a \in Arrangements({"GOVERNANCE", "MEMORY_REF", "STRING"}) : Len(a) = 3},
        separator \in Spaces}

\* The pieces any text is put together from, and the number of pieces.
Pieces ==
    {Keyword, <<"f">>, <<"1">>, <<"@">>, <<"{">>, <<"}">>, <<"(">>, <<")">>,
     <<"\"">>, <<" ">>}

MaxPieces == 4

RECURSIVE Texts(_)
Texts(n) ==
    IF n = 0 THEN {<<>>}
    ELSE LET shorter == Texts(n - 1) IN
         shorter \cup {piece \o t : piece \in Pieces, t \in shorter}

InitTokens ==
    /\ fs = CompleteTree
    /\ nlink = "exit0"
    /\ now = Epoch
    /\ Fresh0("tokenize")
    /\ NoBootstrap
    /\ \/ \E source \in WrittenSources : text = source.text /\ parts = source.parts
       \/ text \in Texts(MaxPieces) \cup NestedSources /\ parts = <<>>
    /\ tokens = <<>>

CallTokenize ==
    /\ pc = "tokenize"
    /\ tokens' = Tokenize(text)
    /\ pc' = "tokenize_done"
    /\ UNCHANGED <<gvars, exit_code, text, parts>>
    /\ UNCHANGED bvars

SpecTokens == InitTokens /\ [][CallTokenize]_vars

----------------------------------------------------------------------------
(* Properties.                                                             *)

\* the run of main has ended
Ended == pc \in {"exited", "crashed"}

\* the stage's recorded results hold outcome r
StageHas(stage, r) ==
    /\ stage \in DOMAIN pipeline_results
    /\ r \in Values(pipeline_results[stage])

StageCritical(stage) == StageHas(stage, SEMVERX_VIOLATION) \/ StageHas(stage, EXPIRED)

\* C1: validate_complete_pipeline evaluates the stages in increasing order
\* from 0, and once the results of a stage hold SEMVERX_VIOLATION or EXPIRED
\* no stage with a higher id is evaluated.
C1_FailFast ==
    /\ \A i \in DOMAIN evaluated : evaluated[i] = i - 1
    /\ \A stage \in Stages :
          StageCritical(stage) => \A i \in DOMAIN evaluated : evaluated[i] <= stage

\* a run halted on stage 3: stages 0..3 were evaluated and no other
C1_Witness ==
    /\ pc = "halt"
    /\ evaluated = <<0, 1, 2, 3>>
    /\ StageHas(3, EXPIRED)

\* C2 (as claimed): when stage 3 holds EXPIRED and stages 0-2 hold neither
\* EXPIRED nor SEMVERX_VIOLATION, generate_governance_report produces a
\* report with stages 0..3, without stages 4..6, and with overall_status
\* EXPIRED_GOVERNANCE.
C2_ReportAfterHalt ==
    (/\ Ended
     /\ StageHas(3, EXPIRED)
     /\ \A stage \in 0 .. 2 : ~StageCritical(stage))
    => /\ report.made
       /\ DOMAIN report.pipeline_validation = 0 .. 3
       /\ report.overall_status = "EXPIRED_GOVERNANCE"

\* every primary and every substage descriptor of stages 0..6 is present
\* and validate_governance_file finds it VALID
AllDescriptorsValid ==
    \A stage \in Stages :
      \A path \in {PrimaryPath(stage)} \cup {GovPath(stage, sub) : sub \in Substages(stage)} :
        /\ Exists(fs[path])
        /\ ValidateGovernanceFile(fs[path]).raised = "none"
        /\ ValidateGovernanceFile(fs[path]).result = VALID

NoCustomStages ==
    \/ ~Exists(fs[MainConfigPath])
    \/ fs[MainConfigPath].kind = "object" /\ fs[MainConfigPath].custom_stages = <<>>

\* C3 (as claimed): with every primary and substage descriptor present and
\* VALID and no custom stages, the report's overall_status is COMPLIANT and
\* main exits with code 0.
C3_AllValidCompliant ==
    (Ended /\ AllDescriptorsValid /\ NoCustomStages)
    => /\ report.made
       /\ report.overall_status = "COMPLIANT"
       /\ exit_code = 0

\* the outcomes collected in a report
Collected ==
    UNION {{report.pipeline_validation[stage][k] :
               k \in DOMAIN report.pipeline_validation[stage]} :
             stage \in DOMAIN report.pipeline_validation}
    \cup {report.custom_stage_validation[k] : k \in DOMAIN report.custom_stage_validation}

\* C4: the overall status is the first matching tier, SEMVERX_VIOLATION >
\* EXPIRED > MISSING_GOVERNANCE > INVALID_SCHEMA > COMPLIANT, over the union
\* of the pipeline and custom-stage outcomes; COMPLIANT exactly when every
\* outcome is VALID or there is none.
C4_StatusTiers ==
    report.made =>
      LET status == report.overall_status IN
      /\ (status = "CRITICAL_FAILURE") <=> (SEMVERX_VIOLATION \in Collected)
      /\ (status = "EXPIRED_GOVERNANCE")
            <=> (EXPIRED \in Collected /\ SEMVERX_VIOLATION \notin Collected)
      /\ (status = "MISSING_GOVERNANCE")
            <=> (/\ MISSING_GOVERNANCE \in Collected
                 /\ Collected \cap {SEMVERX_VIOLATION, EXPIRED} = {})
      /\ (status = "SCHEMA_VIOLATIONS")
            <=> (/\ INVALID_SCHEMA \in Collected
                 /\ Collected \cap {SEMVERX_VIOLATION, EXPIRED, MISSING_GOVERNANCE} = {})
      /\ (status = "COMPLIANT") <=> (Collected \subseteq {VALID})

\* a status decided by the higher of two tiers that are both present, one
\* of them found among the pipeline outcomes and one among the custom ones
C4_Witness ==
    /\ report.made
    /\ pc = "status_done"
    /\ report.overall_status = "CRITICAL_FAILURE"
    /\ EXPIRED \in Values(report.custom_stage_validation)
    /\ \E stage \in DOMAIN report.pipeline_validation :
          SEMVERX_VIOLATION \in Values(report.pipeline_validation[stage])

----------------------------------------------------------------------------
(* Properties of one call of validate_governance_file, stated on the       *)
(* descriptor it was called on (call.file) and on what it produced.        *)

Returned == call.made /\ call.ret.raised = "none"

\* the descriptor carries the four required fields
HasRequired(f) == f.kind = "object" /\ RequiredFields \subseteq f.fields

\* the schema check fails: nothing to read, not JSON, or a required field
\* is missing
SchemaFails(f) == f.kind \in {"absent", "directory", "malformed"} \/ ~HasRequired(f)

\* the age (now - timestamp) is defined: the timestamp carries an offset
AgeDefined(f) == f.ts_form = "aware"

Age(f) == now - f.timestamp

\* the freshness check fails
Stale(f) == f.ts_form = "invalid" \/ (AgeDefined(f) /\ Age(f) >= 7776000)

\* the lock check applies, and it fails
LockApplies(f) == f.semverx_lock = "true" /\ f.nlink_enabled = "true"

LockFails(f) == LockApplies(f) /\ nlink # "exit0"

\* C5: validate_governance_file applies schema, freshness, lock compliance
\* in this order and returns the outcome of the first check that fails,
\* without evaluating the later ones (the tool is not invoked for a
\* descriptor that failed the schema or the freshness check); it returns
\* VALID only if every applicable check passes.
C5_CheckOrder ==
    /\ Returned =>
         LET f == call.file
             result == call.ret.result
         IN
         /\ (result = INVALID_SCHEMA) <=> SchemaFails(f)
         /\ (result = EXPIRED) <=> (~SchemaFails(f) /\ Stale(f))
         /\ (result = SEMVERX_VIOLATION)
               <=> (~SchemaFails(f) /\ ~Stale(f) /\ LockFails(f))
         /\ (result = VALID) <=> (~SchemaFails(f) /\ ~Stale(f) /\ ~LockFails(f))
    /\ call.made =>
         (SchemaFails(call.file) \/ Stale(call.file)
            => call.ret.invoked = 0 /\ nlink_runs = 0)

\* an expired descriptor whose lock would fail as well
C5_Witness ==
    /\ Returned
    /\ HasRequired(call.file) /\ Stale(call.file) /\ LockFails(call.file)
    /\ call.ret.result = EXPIRED
    /\ nlink_runs = 0

\* C6 (as claimed): a descriptor missing one of the required fields, or a
\* source that is unreadable or not valid JSON, gets INVALID_SCHEMA and no
\* parsed descriptor, whatever else it contains.
C6_MissingFieldInvalidSchema ==
    (call.made /\ SchemaFails(call.file))
    => /\ call.ret.raised = "none"
       /\ call.ret.result = INVALID_SCHEMA
       /\ call.ret.config = None

\* the descriptor passes the schema check and is parsed
Parsed(f) == HasRequired(f) /\ f.stage_type \in StageType \cup {"absent"}

\* C7: for a timestamp whose age is defined, the freshness check gives
\* EXPIRED exactly when (now - timestamp) >= 90 days: 90 days + 1 second
\* and exactly 90 days are EXPIRED, 89 days and a timestamp in the future
\* are not.
C7_FreshnessWindow ==
    (call.made /\ Parsed(call.file) /\ AgeDefined(call.file))
    => /\ call.ret.raised = "none"
       /\ (call.ret.result = EXPIRED) <=> (Age(call.file) >= 7776000)
       /\ Age(call.file) \in {7776000, 7776001} => call.ret.result = EXPIRED
       /\ Age(call.file) = 7689600 => call.ret.result # EXPIRED
       /\ Age(call.file) < 0 => call.ret.result # EXPIRED

\* a descriptor exactly 90 days old
C7_Witness ==
    /\ Returned
    /\ Parsed(call.file) /\ AgeDefined(call.file)
    /\ Age(call.file) = 7776000
    /\ call.ret.result = EXPIRED

\* C8: the external validator is invoked only when semverx_lock and
\* nlink_enabled are both true; otherwise the lock check passes without the
\* tool, so an otherwise valid descriptor with semverx_lock=true and
\* nlink_enabled=false is VALID whatever the state of the tool.
C8_LockSkippedWithoutNlink ==
    call.made =>
      /\ call.ret.invoked > 0 => LockApplies(call.file)
      /\ (Parsed(call.file) /\ ~Stale(call.file) /\ AgeDefined(call.file)
            /\ ~LockApplies(call.file))
         => /\ call.ret.raised = "none"
            /\ call.ret.result = VALID
            /\ call.ret.invoked = 0
            /\ nlink_runs = 0

\* semverx_lock=true, nlink_enabled=false, the tool missing
C8_Witness ==
    /\ Returned
    /\ call.file.semverx_lock = "true" /\ call.file.nlink_enabled = "false"
    /\ nlink = "notfound"
    /\ call.ret.result = VALID
    /\ nlink_runs = 0

\* C9: when the lock check applies and schema and freshness passed, the
\* outcome is VALID only if the tool exits 0; a non-zero exit, a timeout
\* and a missing tool each give SEMVERX_VIOLATION, and the tool was invoked.
C9_ConservativeFail ==
    (call.made /\ Parsed(call.file) /\ AgeDefined(call.file) /\ ~Stale(call.file)
       /\ LockApplies(call.file))
    => /\ call.ret.raised = "none"
       /\ call.ret.invoked = 1
       /\ (call.ret.result = VALID) <=> (nlink = "exit0")
       /\ nlink \in {"nonzero", "timeout", "notfound"}
             => call.ret.result = SEMVERX_VIOLATION

\* the lock check applied and the tool timed out
C9_Witness ==
    /\ Returned
    /\ LockApplies(call.file)
    /\ nlink = "timeout"
    /\ call.ret.result = SEMVERX_VIOLATION
    /\ nlink_runs = 1

\* the stage-5 optimizer descriptor of the tree, and its embedded object
OptimizerDescriptor == fs[GovPath(5, "optimizer")]

EmbeddedComplete(f) ==
    /\ f.kind = "object"
    /\ f.stage_5_optimizer.present
    /\ \A field \in Stage5RequiredFields : f.stage_5_optimizer[field] # "absent"

\* C10 (as claimed): with the embedded optimizer object complete, the
\* security outcome recorded for the optimizer is SEMVERX_VIOLATION when
\* minimization_verified is false, and VALID when minimization_verified and
\* audit_enabled are true and the audit artifact is on disk.
C10_Stage5Security ==
    (/\ 5 \in DOMAIN pipeline_results
     /\ SecurityKey \in DOMAIN pipeline_results[5]
     /\ EmbeddedComplete(OptimizerDescriptor))
    => LET embedded == OptimizerDescriptor.stage_5_optimizer
           recorded == pipeline_results[5][SecurityKey]
       IN
       /\ embedded.minimization_verified = "false" => recorded = SEMVERX_VIOLATION
       /\ (/\ embedded.minimization_verified = "true"
           /\ embedded.audit_enabled = "true"
           /\ Exists(fs[AuditPath]))
          => recorded = VALID

----------------------------------------------------------------------------
(* Properties of the fallback policy.                                      *)

\* C11 (as claimed): whatever the descriptors hold, validation hands one of
\* the five ValidationResult outcomes to its caller and no exception leaves
\* the validator: a pipeline run is ended by nothing but the build halt.
C11_NoExceptionEscapes ==
    /\ pc \notin {"raised", "crashed"}
    /\ \A stage \in DOMAIN pipeline_results :
          Values(pipeline_results[stage]) \subseteq ValidationResult

\* the three descriptors of stage 0, and the outcome recorded for the
\* substage by the fallback policy
Dedicated == fs[GovPath(0, "tokenizer")]
Fallback == fs[FallbackPath(0, "tokenizer")]
Primary == fs[PrimaryPath(0)]

StageReturned == 0 \in DOMAIN pipeline_results

\* the outcome the checks of validate_governance_file give a descriptor
Outcome(f) ==
    IF SchemaFails(f) THEN INVALID_SCHEMA
    ELSE IF Stale(f) THEN EXPIRED
    ELSE IF LockFails(f) THEN SEMVERX_VIOLATION
    ELSE VALID

\* C12: with the dedicated descriptor absent and a fallback descriptor
\* present, the outcome recorded for the substage is the outcome of the
\* fallback descriptor, unchanged; an EXPIRED or SEMVERX_VIOLATION fallback
\* halts the pipeline; the validation log records that a fallback was used.
C12_FallbackPropagated ==
    (StageReturned /\ ~Exists(Dedicated) /\ Exists(Fallback))
    => /\ FallbackKey("tokenizer") \in DOMAIN pipeline_results[0]
       /\ pipeline_results[0][FallbackKey("tokenizer")] = Outcome(Fallback)
       /\ GovernanceKey("tokenizer") \notin DOMAIN pipeline_results[0]
       /\ "using_fallback" \in Range(validation_log)
       /\ Outcome(Fallback) \in {EXPIRED, SEMVERX_VIOLATION}
             => /\ pc \in {"halt", "exited"}
                /\ "build_halt" \in Range(validation_log)

\* an expired fallback descriptor, next to a valid primary, halted the run
C12_Witness ==
    /\ pc = "halt"
    /\ ~Exists(Dedicated) /\ Exists(Fallback)
    /\ Outcome(Fallback) = EXPIRED
    /\ StageReturned
    /\ DOMAIN pipeline_results[0] = {PrimaryKey, FallbackKey("tokenizer")}
    /\ pipeline_results[0][FallbackKey("tokenizer")] = EXPIRED
    /\ pipeline_results[0][PrimaryKey] = VALID
    /\ "using_fallback" \in Range(validation_log)

C14_DefaultExperimental ==
    (/\ call.made
     /\ ~Exists(Dedicated) /\ ~Exists(Fallback)
     /\ Primary.kind = "object" /\ Primary.stage_type = "absent")
    => /\ ParseGovernanceConfig(Primary).stage_type = "experimental"
       /\ call.ret.raised = "none"
       /\ call.ret.result = VALID

----------------------------------------------------------------------------
(* Properties of validate_custom_stages.                                   *)

MainConfig == fs[MainConfigPath]

\* the entry carries both name and stage_id, whatever their values
Carries(entry) == entry.name # "absent" /\ entry.has_stage_id

\* C15 (as claimed): every entry of the custom_stages list has its own
\* outcome: INVALID_SCHEMA exactly when it does not carry both name and
\* stage_id (stage_id 0 is carried); else the outcome of its descriptor when
\* one exists; else MISSING_GOVERNANCE when activated and VALID when not.
C15_CustomStageOutcomes ==
    (report.made /\ MainConfig.kind = "object")
    => LET list == MainConfig.custom_stages
           results == report.custom_stage_validation
       IN
       /\ Cardinality(DOMAIN results) = Len(list)
       /\ \A i \in DOMAIN list :
            LET entry == list[i] IN
            /\ CustomKey(entry) \in DOMAIN results
            /\ IF ~Carries(entry) THEN results[CustomKey(entry)] = INVALID_SCHEMA
               ELSE LET custom_gov == fs[CustomGovPath(entry.name)] IN
                    IF Exists(custom_gov)
                    THEN results[CustomKey(entry)] = Outcome(custom_gov)
                    ELSE IF entry.activated = "true"
                    THEN results[CustomKey(entry)] = MISSING_GOVERNANCE
                    ELSE results[CustomKey(entry)] = VALID

----------------------------------------------------------------------------
(* Properties of resolve_execution_order, stated on the dependency graph   *)
(* of the registry.                                                        *)

Registered == DOMAIN scripts

\* the names a node declares in depends_on (none for an unregistered name)
DeclaredDeps(name) ==
    IF name \in Registered THEN Range(scripts[name].depends_on) ELSE {}

RECURSIVE Closure(_, _)
Closure(S, n) ==
    IF n = 0 THEN S
    ELSE Closure(S \cup UNION {DeclaredDeps(x) : x \in S}, n - 1)

\* the names reachable through depends_on from a set of names
ReachableFrom(S) == Closure(S, Cardinality(Names) + 1)

Reachable(name) == ReachableFrom({name})

\* the node lies on a dependency cycle
OnCycle(name) == name \in ReachableFrom(DeclaredDeps(name))

CycleReachable == \E name \in Reachable(target_script) : OnCycle(name)

Resolved == pc = "resolve_done"

\* C16: when a dependency cycle is reachable from the target the resolver
\* raises the cycle error and returns no order, not even a partial one;
\* when none is reachable it returns an order.
C16_CycleError ==
    Resolved =>
      IF CycleReachable
      THEN /\ execution_order.raised = "ValueError"
           /\ ~execution_order.returned
           /\ execution_order.order = <<>>
      ELSE /\ execution_order.raised = "none"
           /\ execution_order.returned

\* A depends on B, B on C, C on A
C16_Witness ==
    /\ Resolved
    /\ target_script = "A"
    /\ scripts["A"].depends_on = <<"B">>
    /\ scripts["B"].depends_on = <<"C">>
    /\ scripts["C"].depends_on = <<"A">>
    /\ execution_order.raised = "ValueError"
    /\ ~execution_order.returned

\* a node reachable from the target declares a name that is not registered
UndeclaredReachable ==
    \E name \in Reachable(target_script) \cap Registered :
       ~(DeclaredDeps(name) \subseteq Registered)

\* C17 (as claimed): when the target or a node reachable from it depends on
\* a name that is not in the registry, the resolver raises an error instead
\* of returning an order.
C17_UndeclaredDependency ==
    (Resolved /\ UndeclaredReachable)
    => /\ execution_order.raised # "none"
       /\ ~execution_order.returned

Position(order, name) == CHOOSE i \in DOMAIN order : order[i] = name

RECURSIVE PostOrder(_, _)
RECURSIVE PostOrderEach(_, _, _)

\* the depth-first post-order of the registered nodes reached from name
\* that are not in done
PostOrder(name, done) ==
    IF name \in done \/ name \notin Registered THEN <<>>
    ELSE Append(PostOrderEach(scripts[name].depends_on, done, <<>>), name)

\* the same for a list of names, one after the other
PostOrderEach(names, done, order) ==
    IF names = <<>> THEN order
    ELSE LET first == PostOrder(Head(names), done \cup Range(order)) IN
         PostOrderEach(Tail(names), done, order \o first)

\* C18: for a registry without a cycle reachable from the target, the order
\* is the depth-first post-order from the target: exactly the registered
\* nodes reachable from it, each once, the target last, every node after its
\* declared dependencies, dependencies in declared order.
C18_PostOrder ==
    (Resolved /\ ~CycleReachable)
    => LET order == execution_order.order IN
       /\ execution_order.returned
       /\ Range(order) = Reachable(target_script) \cap Registered
       /\ Cardinality(Range(order)) = Len(order)
       /\ target_script \in Registered => order[Len(order)] = target_script
       /\ \A name \in Range(order) :
            \A dep \in DeclaredDeps(name) \cap Registered :
               Position(order, dep) < Position(order, name)
       /\ target_script \in Registered =>
            LET deps == scripts[target_script].depends_on IN
            \A i, j \in DOMAIN deps :
               (/\ i < j
                /\ {deps[i], deps[j]} \subseteq Registered
                /\ deps[j] \notin Reachable(deps[i]))
               => Position(order, deps[i]) < Position(order, deps[j])
       /\ order = PostOrder(target_script, {})
       /\ (/\ target_script = "A"
           /\ scripts["A"].depends_on = <<"B">>
           /\ scripts["B"].depends_on = <<>>) => order = <<"B", "A">>
       /\ (target_script = "C" /\ scripts["C"].depends_on = <<>>) => order = <<"C">>

\* A depends on C then B, B on C: C is reached along two paths and is in
\* the order once, before B
C18_Witness ==
    /\ Resolved
    /\ target_script = "A"
    /\ scripts["A"].depends_on = <<"C", "B">>
    /\ scripts["B"].depends_on = <<"C">>
    /\ scripts["C"].depends_on = <<>>
    /\ execution_order.order = <<"C", "B", "A">>

----------------------------------------------------------------------------
(* Properties of the lifecycle, stated on the history of the phases run.   *)

\* the phases run for a node, in order, with their results
RECURSIVE TraceOf(_, _)
TraceOf(name, history) ==
    IF history = <<>> THEN <<>>
    ELSE IF Head(history).node = name
    THEN <<Head(history)>> \o TraceOf(name, Tail(history))
    ELSE TraceOf(name, Tail(history))

\* C19: a node runs its phases in the order PermissionCheck,
\* GovernanceCheck, PreHooks, Executing, PostHooks; a phase is run only when
\* every phase before it succeeded; a failed phase ends the node as Failed
\* with no later phase run; the node is Completed only when all five
\* succeeded.
C19_PhaseOrder ==
    \A name \in DOMAIN lifecycle :
      LET ran == TraceOf(name, trace) IN
      /\ Len(ran) <= Len(Phases)
      /\ \A i \in DOMAIN ran :
           /\ ran[i].phase = Phases[i]
           /\ \A j \in 1 .. (i - 1) : ran[j].ok
      /\ (lifecycle[name] = "Failed") <=> (ran # <<>> /\ ~ran[Len(ran)].ok)
      /\ (lifecycle[name] = "Completed")
            <=> (Len(ran) = Len(Phases) /\ \A i \in DOMAIN ran : ran[i].ok)
      /\ (lifecycle[name] = "Pending") <=> (ran = <<>> /\ (pc # "loop" \/ Node # name))
      /\ \A i \in DOMAIN Phases :
           lifecycle[name] = Phases[i] => Len(ran) = i - 1

\* one node Completed through its five phases, the next Failed in its
\* primary action after three phases that succeeded
C19_Witness ==
    /\ pc = "done"
    /\ Len(execution_order.order) >= 2
    /\ lifecycle[execution_order.order[1]] = "Completed"
    /\ lifecycle[execution_order.order[2]] = "Failed"
    /\ LET ran == TraceOf(execution_order.order[2], trace) IN
       /\ Len(ran) = 4
       /\ ran[4].phase = "Executing" /\ ~ran[4].ok
       /\ ran[3].phase = "PreHooks" /\ ran[3].ok
    /\ scripts[execution_order.order[2]].hooks.pre # <<>>

\* the nodes of the order before the one the loop is at
Before(name) ==
    {execution_order.order[i] : i \in 1 .. (Position(execution_order.order, name) - 1)}

\* nothing has been done for the node
Untouched(name) ==
    /\ lifecycle[name] = "Pending"
    /\ TraceOf(name, trace) = <<>>
    /\ modes[name] = [exists |-> TRUE, bits |-> 0]
    /\ \A i \in DOMAIN audit_log : audit_log[i].script # name
    /\ \A i \in DOMAIN elevation_log : elevation_log[i].path # scripts[name].path

\* C20: the nodes run one at a time in the resolved order; once a node is
\* Failed no later node of the order has anything done for it and
\* bootstrap_target answers False; a node's lifecycle has started only when
\* each of its dependencies is Completed.
C20_FailFast ==
    /\ \A i, j \in DOMAIN trace :
         i < j => Position(execution_order.order, trace[i].node)
                    <= Position(execution_order.order, trace[j].node)
    /\ \A name \in DOMAIN lifecycle :
         /\ lifecycle[name] # "Pending" =>
              /\ name \in Range(execution_order.order)
              /\ \A earlier \in Before(name) : lifecycle[earlier] = "Completed"
              /\ \A dep \in DeclaredDeps(name) \cap Registered :
                    lifecycle[dep] = "Completed"
         /\ lifecycle[name] = "Failed" =>
              /\ success = "false"
              /\ pc \in {"done", "exited"}
              /\ \A later \in Range(execution_order.order) :
                    Position(execution_order.order, later)
                       > Position(execution_order.order, name)
                    => Untouched(later)
    /\ success = "true" => \A name \in Range(execution_order.order) :
                              lifecycle[name] = "Completed"

\* order C, B, A: C Completed, B Failed in a hook phase, A never started
C20_Witness ==
    /\ pc = "done"
    /\ success = "false"
    /\ execution_order.order = <<"C", "B", "A">>
    /\ lifecycle["C"] = "Completed"
    /\ lifecycle["B"] = "Failed"
    /\ Untouched("A")
    /\ trace[Len(trace)].phase = "PreHooks"

----------------------------------------------------------------------------
(* The hook phases.                                                        *)

\* the hooks met by execute_hooks for the script and the hook type
CallsOf(script_name, hook_type) ==
    SelectSeq(hook_calls, LAMBDA c : c.script = script_name /\ c.type = hook_type)

HookTypeOf(phase) == IF phase = "PreHooks" THEN "pre" ELSE "post"

\* C21: within a hook phase that was run, every named hook is met in the
\* declared order and is run exactly when its script exists, whatever the
\* hooks before it gave; the phase succeeded exactly when no hook that was
\* run failed, and a failed phase leaves the node Failed.  A missing script
\* is passed over and fails nothing.
C21_HooksAggregate ==
    \A i \in DOMAIN trace :
       LET t == trace[i] IN
       t.phase \in {"PreHooks", "PostHooks"} =>
          LET hooks == scripts[t.node].hooks[HookTypeOf(t.phase)]
              calls == CallsOf(t.node, HookTypeOf(t.phase))
          IN
          /\ Len(calls) = Len(hooks)
          /\ \A k \in DOMAIN hooks :
                /\ calls[k].hook = hooks[k]
                /\ calls[k].called = calls[k].exists
          /\ t.ok = ~(\E k \in DOMAIN calls : calls[k].called /\ ~calls[k].ok)
          /\ (~t.ok => lifecycle[t.node] = "Failed")

\* A pre-hook phase whose first hook failed and whose second hook was run
\* all the same and succeeded; the phase failed and so did the node.
C21_Witness ==
    /\ trace # <<>>
    /\ LET t == trace[Len(trace)]
           calls == CallsOf(t.node, "pre")
       IN
       /\ t.phase = "PreHooks"
       /\ ~t.ok
       /\ Len(calls) >= 2
       /\ calls[1].called /\ ~calls[1].ok
       /\ calls[2].called /\ calls[2].ok
       /\ lifecycle[t.node] = "Failed"

----------------------------------------------------------------------------
(* The permission check.                                                   *)

\* the rules of the permission policy that match the path, segment by
\* segment with '*' for any one segment
MatchingRules(path) ==
    {i \in DOMAIN permission_config.elevation_rules :
        LET pattern == permission_config.elevation_rules[i].pattern IN
        /\ Len(pattern) = Len(path)
        /\ \A k \in DOMAIN pattern : pattern[k] \in {"*", path[k]}}

\* the mode of the first matching rule, or the default mode
RequiredMode(path) ==
    IF MatchingRules(path) = {} THEN permission_config.default_script_mode
    ELSE LET first == CHOOSE i \in MatchingRules(path) :
                         \A j \in MatchingRules(path) : i <= j
         IN permission_config.elevation_rules[first].mode

\* the file of the node carries the mode the string names
CarriesMode(name, mode) ==
    /\ modes[name].exists
    /\ IsOctal(mode)
    /\ modes[name].bits = IntBase8(mode)

\* C22: a permission check that was run succeeded exactly when the file of
\* the node carries, after it, the required mode of the permission policy
\* (the mode of the first matching rule, else the default mode), and a
\* check that did not succeed left the node Failed.
C22_PermissionCheck ==
    \A i \in DOMAIN trace :
       LET t == trace[i] IN
       t.phase = "PermissionCheck" =>
          /\ t.ok = CarriesMode(t.node, RequiredMode(scripts[t.node].path))
          /\ (~t.ok => lifecycle[t.node] = "Failed")

----------------------------------------------------------------------------
(* The governance gate.                                                    *)

\* the keys with a registered predicate, and the values each accepts
RecognizedKeys == {"zero_trust_mode", "stage_isolation", "type_safety"}

Accepted(key) ==
    IF key = "zero_trust_mode" THEN {"enabled"}
    ELSE IF key = "stage_isolation" THEN {"strict", "moderate"}
    ELSE {"strict", "moderate", "lenient"}

\* every declared key=value pair has an unrecognized key or an accepted value
PolicySatisfied(name) ==
    \A k \in DOMAIN scripts[name].governance_policy :
       LET item == scripts[name].governance_policy[k] IN
       item.eq => (item.key \notin RecognizedKeys \/ item.value \in Accepted(item.key))

\* the resolved path of the node lies within the project root
WithinProject(name) ==
    LET resolved == ResolvePath(scripts[name].path, <<>>) IN
    /\ Len(resolved) >= Len(PROJECT_ROOT)
    /\ \A k \in DOMAIN PROJECT_ROOT : resolved[k] = PROJECT_ROOT[k]

\* the result of the governance check of the node, once it was run
GateOf(name) ==
    {trace[i].ok : i \in {j \in DOMAIN trace :
                            trace[j].node = name /\ trace[j].phase = "GovernanceCheck"}}

\* C23: for every governance check that was run, the policy part recorded
\* passed exactly when every declared key=value pair has an unrecognized
\* key or satisfies the predicate of its key, the security part passed
\* exactly when the resolved path lies within the project root, and the
\* gate failed, and with it the node, when either part did not pass.
C23_GovernanceGate ==
    \A i \in DOMAIN audit_log :
       LET r == audit_log[i] IN
       /\ r.validation.governance_compliance = PolicySatisfied(r.script)
       /\ r.validation.security_scan = WithinProject(r.script)
       /\ (~PolicySatisfied(r.script) \/ ~WithinProject(r.script)) =>
             /\ GateOf(r.script) = {FALSE}
             /\ lifecycle[r.script] = "Failed"

\* Two nodes went through the gate: one passed it with a satisfied
\* recognized key, an item without '=' and an unrecognized key; the other,
\* whose file carries its declared mode and lies within the project, failed
\* it on one recognized key with a value that is not accepted.
C23_Witness ==
    /\ Len(audit_log) = 2
    /\ LET first == audit_log[1]
           last == audit_log[2]
       IN
       /\ \E k \in DOMAIN scripts[first.script].governance_policy :
             LET item == scripts[first.script].governance_policy[k] IN
             item.eq /\ item.key \notin RecognizedKeys
       /\ GateOf(first.script) = {TRUE}
       /\ last.validation.permission_check
       /\ last.validation.security_scan
       /\ ~last.validation.governance_compliance
       /\ GateOf(last.script) = {FALSE}
       /\ lifecycle[last.script] = "Failed"

\* A node whose path leaves the project root failed the gate although its
\* policy is satisfied and its file carries its declared mode.
C23_WitnessOutside ==
    \E i \in DOMAIN audit_log :
       LET r == audit_log[i] IN
       /\ r.validation.permission_check
       /\ r.validation.governance_compliance
       /\ ~r.validation.security_scan
       /\ GateOf(r.script) = {FALSE}

----------------------------------------------------------------------------
(* The audit logs of the orchestrator.                                     *)

\* the log of the phase holds a record of a failure of the node
FailureRecorded(name, phase) ==
    CASE phase = "PermissionCheck" ->
           \E k \in DOMAIN elevation_log :
              elevation_log[k].path = scripts[name].path /\ ~elevation_log[k].success
      [] phase = "GovernanceCheck" ->
           \E k \in DOMAIN audit_log :
              /\ audit_log[k].script = name
              /\ \E c \in DOMAIN audit_log[k].validation : ~audit_log[k].validation[c]
      [] phase \in {"PreHooks", "PostHooks"} ->
           \E k \in DOMAIN hook_results :
              /\ hook_results[k].type = HookTypeOf(phase)
              /\ hook_results[k].hook \in Range(scripts[name].hooks[HookTypeOf(phase)])
              /\ ~hook_results[k].success
      [] OTHER ->
           \/ \E k \in DOMAIN elevation_log :
                 elevation_log[k].path = scripts[name].path /\ ~elevation_log[k].success
           \/ \E k \in DOMAIN audit_log :
                 /\ audit_log[k].script = name
                 /\ \E c \in DOMAIN audit_log[k].validation : ~audit_log[k].validation[c]
           \/ \E k \in DOMAIN hook_results : ~hook_results[k].success

\* C24: once a phase of a node has failed, the failure is on record: a
\* failed permission check in elevation_log, a failed governance check in
\* audit_log, a failed hook in hook_results, a failed primary action in one
\* of the three.
C24_FailuresRecorded ==
    \A i \in DOMAIN trace :
       ~trace[i].ok => FailureRecorded(trace[i].node, trace[i].phase)

\* The cases of C24 apart: the permission check, the governance check, the
\* hook phases and the primary action.
C24_PermissionRecorded ==
    \A i \in DOMAIN trace :
       (~trace[i].ok /\ trace[i].phase = "PermissionCheck")
          => FailureRecorded(trace[i].node, trace[i].phase)

C24_GovernanceRecorded ==
    \A i \in DOMAIN trace :
       (~trace[i].ok /\ trace[i].phase = "GovernanceCheck")
          => FailureRecorded(trace[i].node, trace[i].phase)

C24_HookRecorded ==
    \A i \in DOMAIN trace :
       (~trace[i].ok /\ trace[i].phase \in {"PreHooks", "PostHooks"})
          => FailureRecorded(trace[i].node, trace[i].phase)

C24_PrimaryRecorded ==
    \A i \in DOMAIN trace :
       (~trace[i].ok /\ trace[i].phase = "Executing")
          => FailureRecorded(trace[i].node, trace[i].phase)

----------------------------------------------------------------------------
(* Two runs of the pipeline validation.                                    *)

\* the second run has ended
BothEnded == previous.made /\ pc \in {"reported", "halt", "raised"}

\* C25: a second run over the unchanged tree without locks ends as the
\* first did, with the same per-stage outcomes, the same custom-stage
\* outcomes and the same overall status; it appends as many records to the
\* validation log as the first, and the records of the first run stay in
\* front of the log as they were.
C25_Idempotent ==
    /\ previous.made =>
          /\ Len(validation_log) >= Len(previous.validation_log)
          /\ SubSeq(validation_log, 1, Len(previous.validation_log))
                = previous.validation_log
    /\ BothEnded =>
          /\ pc = previous.ended
          /\ pipeline_results = previous.pipeline_validation
          /\ custom_results = previous.custom_stage_validation
          /\ report.overall_status = previous.overall_status
          /\ Len(validation_log) = 2 * Len(previous.validation_log)

\* Both runs returned a report, the second at a later time; each logged
\* something, validated a custom stage and found the project not compliant.
C25_Witness ==
    /\ BothEnded
    /\ pc = "reported"
    /\ now > Epoch
    /\ previous.validation_log # <<>>
    /\ custom_results # EmptyDict
    /\ report.overall_status \notin {"none", "COMPLIANT"}

----------------------------------------------------------------------------
(* The exit code of the governance command.                                *)

\* the pipeline was halted
Halted == "build_halt" \in Range(validation_log)

\* C26: once main has ended, the exit code is 0 exactly when the report's
\* overall status is COMPLIANT, 2 exactly when it is MISSING_GOVERNANCE or
\* SCHEMA_VIOLATIONS, and 1 when it is CRITICAL_FAILURE or
\* EXPIRED_GOVERNANCE or when the pipeline was halted.
C26_ExitCodes ==
    Ended =>
      /\ exit_code = 0 <=> report.overall_status = "COMPLIANT"
      /\ exit_code = 2 <=> report.overall_status \in {"MISSING_GOVERNANCE",
                                                      "SCHEMA_VIOLATIONS"}
      /\ report.overall_status \in {"CRITICAL_FAILURE", "EXPIRED_GOVERNANCE"}
            => exit_code = 1
      /\ Halted => exit_code = 1

\* main exited with 1 on a report whose overall status is CRITICAL_FAILURE.
C26_Witness ==
    /\ pc = "exited"
    /\ report.made
    /\ report.overall_status = "CRITICAL_FAILURE"
    /\ exit_code = 1

----------------------------------------------------------------------------
(* The tokenizer.                                                          *)

Tokenized == pc = "tokenize_done"

\* the fixed priority of the rules
Priority ==
    <<"GOVERNANCE", "MEMORY_REF", "FUNC_SIG", "EXPR_BLOCK", "STRING", "NUMBER",
      "IDENTIFIER">>

Rank(type) == CHOOSE i \in DOMAIN Priority : Priority[i] = type

\* the text holds a construct of the kind: the rule of the kind matches
\* at a position that does not continue a word
Holds(kind) ==
    \E pos \in 1 .. Len(text) :
       /\ MatchEnd(kind, text, pos) # 0
       /\ pos > 1 => text[pos - 1] \notin WordChars

TokenTypes == {tokens[i].type : i \in DOMAIN tokens}

\* no IDENTIFIER token begins where a governance block or a memory
\* reference begins
NeverIdentifier ==
    \A i \in DOMAIN tokens :
       tokens[i].type = "IDENTIFIER" =>
          /\ GovernanceEnd(text, tokens[i].start + 1) = 0
          /\ MemoryRefEnd(text, tokens[i].start + 1) = 0

\* C27 as stated: a source that holds a governance block, a function
\* signature, a memory reference, a string literal and a number yields a
\* token of each of the five types, and no governance block or memory
\* reference comes out as an IDENTIFIER.
C27_EveryConstructTokenized ==
    Tokenized =>
       /\ (\A kind \in ConstructKinds : Holds(kind)) => ConstructKinds \subseteq TokenTypes
       /\ NeverIdentifier

\* the positions (counted from 1) the token takes
Covered(token) == (token.start + 1) .. token.end

\* C27, amended: the tokens follow each other from left to right without
\* overlap; each is the match, at its start, of the first rule in the fixed
\* priority that matches there, and at a position no token takes no rule
\* matches; every construct that stands on its own in the source (between
\* whitespace, outside any other construct) comes out as one token of its
\* type that takes exactly the construct; no IDENTIFIER token begins where
\* a governance block or a memory reference begins.
C27_Tokenize ==
    Tokenized =>
       /\ \A i \in DOMAIN tokens :
             LET t == tokens[i] IN
             /\ 0 <= t.start /\ t.start < t.end /\ t.end <= Len(text)
             /\ t.value = SubSeq(text, t.start + 1, t.end)
             /\ i > 1 => tokens[i - 1].end <= t.start
             /\ MatchEnd(t.type, text, t.start + 1) = t.end + 1
             /\ \A r \in 1 .. (Rank(t.type) - 1) :
                   MatchEnd(Priority[r], text, t.start + 1) = 0
       /\ \A pos \in 1 .. Len(text) :
             (\A i \in DOMAIN tokens : pos \notin Covered(tokens[i]))
                => \A r \in DOMAIN Priority : MatchEnd(Priority[r], text, pos) = 0
       /\ \A k \in DOMAIN parts :
             \E i \in DOMAIN tokens :
                /\ tokens[i].type = parts[k].kind
                /\ tokens[i].start = parts[k].start
                /\ tokens[i].end = parts[k].end
       /\ NeverIdentifier

\* A source of the five constructs, each on its own, with the governance
\* block after the others, was tokenized into exactly five tokens, one of
\* each type.
C27_Witness ==
    /\ Tokenized
    /\ Len(parts) = 5
    /\ parts[5].kind = "GOVERNANCE"
    /\ Len(tokens) = 5
    /\ TokenTypes = ConstructKinds

----------------------------------------------------------------------------
(* Where the stage-5 security addendum is recorded.                        *)

\* the optimizer descriptor of the stage was validated, at its dedicated
\* location or at the fallback location
OptimizerValidated(stage) ==
    LET results == pipeline_results[stage] IN
    \/ GovernanceKey("optimizer") \in DOMAIN results
    \/ /\ FallbackKey("optimizer") \in DOMAIN results
       /\ Exists(fs[FallbackPath(stage, "optimizer")])

\* C28 (as claimed): the results of a stage hold the security outcome
\* exactly when the stage is stage 5 and its optimizer descriptor was
\* validated, found at the dedicated location or at the fallback location.
C28_SecurityAddendum ==
    \A stage \in DOMAIN pipeline_results :
       SecurityKey \in DOMAIN pipeline_results[stage]
          <=> (stage = 5 /\ OptimizerValidated(stage))

\* the part of C28 the code keeps: the security outcome is recorded for
\* stage 5 only, and only beside the optimizer's governance outcome
C28_OnlyOptimizer ==
    \A stage \in DOMAIN pipeline_results :
       SecurityKey \in DOMAIN pipeline_results[stage]
          => (stage = 5 /\ GovernanceKey("optimizer") \in DOMAIN pipeline_results[stage])

\* the dedicated location always brings the security outcome
C28_DedicatedEvaluated ==
    (5 \in DOMAIN pipeline_results
        /\ GovernanceKey("optimizer") \in DOMAIN pipeline_results[5])
       => SecurityKey \in DOMAIN pipeline_results[5]

----------------------------------------------------------------------------
(* The mode the governance gate compares with.                             *)

\* the permission check of the node succeeded
PermissionPassed(name) ==
    \E i \in DOMAIN trace :
       /\ trace[i].node = name
       /\ trace[i].phase = "PermissionCheck"
       /\ trace[i].ok

\* C29 (as claimed): the governance check compares the mode of the file
\* with the required mode the permission check computed and applied, so the
\* permission part of every governance check that follows a successful
\* permission check passed, whatever mode the node declares.
C29_SameRequiredMode ==
    \A i \in DOMAIN audit_log :
       LET r == audit_log[i] IN
       PermissionPassed(r.script) => r.validation.permission_check

\* what the code compares with: the mode declared on the node
C29_DeclaredMode ==
    \A i \in DOMAIN audit_log :
       LET r == audit_log[i] IN
       PermissionPassed(r.script) =>
          (r.validation.permission_check
              <=> scripts[r.script].permissions = RequiredMode(scripts[r.script].path))

----------------------------------------------------------------------------
(* What a successful bootstrap stands for.                                 *)

\* the names of the resolved order
OrderNames == Range(execution_order.order)

\* C30 (as claimed): bootstrap_target answers True only when the target is
\* registered and every node of its resolved order, the target among them,
\* is Completed; a target that is not registered never gives True.
C30_SuccessMeansCompleted ==
    success = "true" =>
       /\ target_script \in DOMAIN scripts
       /\ target_script \in OrderNames
       /\ \A name \in OrderNames : lifecycle[name] = "Completed"

\* the part of C30 the code keeps: after True every node of the resolved
\* order is Completed, and a registered target is among them
C30_ResolvedCompleted ==
    success = "true" =>
       /\ \A name \in OrderNames : lifecycle[name] = "Completed"
       /\ target_script \in DOMAIN scripts => target_script \in OrderNames

----------------------------------------------------------------------------
(* A timestamp that cannot be parsed.                                      *)

\* the descriptor passes the schema check and is parsed, and its timestamp
\* is a string fromisoformat rejects
Unparseable(f) == Parsed(f) /\ f.ts_form = "invalid"

\* the descriptors validate_stage_governance reads for the stage, each with
\* the key its outcome is recorded under: the primary descriptor, the
\* descriptor of each substage at its dedicated place or, when there is
\* none, at the fallback place
StageReads(stage) ==
    (IF Exists(fs[PrimaryPath(stage)])
     THEN {[path |-> PrimaryPath(stage), key |-> PrimaryKey]} ELSE {})
    \cup {[path |-> GovPath(stage, sub), key |-> GovernanceKey(sub)] :
             sub \in {x \in Substages(stage) : Exists(fs[GovPath(stage, x)])}}
    \cup {[path |-> FallbackPath(stage, sub), key |-> FallbackKey(sub)] :
             sub \in {x \in Substages(stage) :
                        /\ ~Exists(fs[GovPath(stage, x)])
                        /\ Exists(fs[FallbackPath(stage, x)])}}

----------------------------------------------------------------------------
(* Custom stages and the build halt.                                       *)

\* the custom_stages list of the main configuration
DeclaredCustomStages == fs[MainConfigPath].custom_stages

\* the entry has a descriptor that is validated
CustomValidated(entry) ==
    ~EntryIncomplete(entry) /\ Exists(fs[CustomGovPath(entry.name)])

\* the outcome validate_governance_file gives the descriptor of the entry
CustomOutcome(entry) == ValidateGovernanceFile(fs[CustomGovPath(entry.name)])

\* neither reading the main configuration nor validating the descriptor of
\* one of its custom stages raises an exception
CustomReturns ==
    /\ fs[MainConfigPath].kind \in {"absent", "object"}
    /\ \A i \in DOMAIN DeclaredCustomStages :
          CustomValidated(DeclaredCustomStages[i])
             => CustomOutcome(DeclaredCustomStages[i]).raised = "none"

\* the run went past the pipeline: the last stage was evaluated, the
\* build was not halted, and the custom stages have been dealt with
PastCustom ==
    /\ (NumStages - 1) \in DOMAIN pipeline_results
    /\ ~Halted
    /\ pc # "custom"

C32_WitnessExpired ==
    /\ pc = "exited"
    /\ report.made
    /\ ~Halted
    /\ EXPIRED \in Values(report.custom_stage_validation)
    /\ report.overall_status = "EXPIRED_GOVERNANCE"

====
